---- MODULE Spec2Model ----
(***************************************************************************)
(* DiscMapper capture pipelines.                                           *)
(*                                                                         *)
(*   movies : discmapper_v02.py     cmd_rip        (explicit RipState FSM) *)
(*   tv     : discmapper_tv_v02.py  cmd_rip_queue  (inline control flow)   *)
(*                                                                         *)
(* External capabilities (ripper, prober, media presence, eject, the       *)
(* filesystem) are the environment: each call draws its outcome from the   *)
(* set of outcomes the capability can produce, failures included.          *)
(***************************************************************************)
EXTENDS Integers, Sequences, FiniteSets, TLC

VARIABLES pipeline, cfg, qpos, run, pc, job

vars == <<pipeline, cfg, qpos, run, pc, job>>

\* ------------------------------------------------------------------ bounds
\* Number of items in the queue of one run.
QueueLen == 2
\* Largest number of titles one rip writes into the job folder.
MaxFiles == 2
\* max_wait_s expressed in poll intervals (max_wait_minutes*60 / poll_interval_seconds).
MaxWaitPolls == 1
\* safe_move's retries parameter (25 by default in the program).
Retries == 2
\* Largest number of settings a run's config.json changes from DEFAULT_CONFIG.
MaxChanged == 2
\* Largest number of episodes the index lists for one disc.
MaxEps == 2
\* Largest number of expected units in one call of the matcher.
MaxUnits == 3
\* Largest number of candidate files in one call of the matcher.
MaxCands == 4
\* Durations handed to one call of compute_typical_runtime_seconds.
MaxDurs == 6
\* *.mkv files in the folder of one call of pick_keeper_or_prompt, next to
\* the four-file folders of FourCutFolders.
MaxKeeperFiles == 3

\* ------------------------------------------------------- program constants
\* min_main_minutes * 60
min_main == 2700
\* finish.dedupe_duration_tolerance_seconds
tol == 2
\* finish.multi_cut_threshold_seconds
multi_cut == 180

\* ----------------------------------------------------------------- helpers
Max(a, b) == IF a >= b THEN a ELSE b
Min(a, b) == IF a <= b THEN a ELSE b
Abs(x) == IF x < 0 THEN -x ELSE x

RECURSIVE SeqSum(_)
SeqSum(s) == IF s = <<>> THEN 0 ELSE Head(s) + SeqSum(Tail(s))

\* All sequences over S of length 0..n.
SeqsUpTo(S, n) == UNION {[1..k -> S] : k \in 0..n}

\* ------------------------------------------------------------ RipState enum
WAIT_FOR_DISC == "WAIT_FOR_DISC"
DISC_DETECTED == "DISC_DETECTED"
RIP == "RIP"
VERIFY_OUTPUTS == "VERIFY_OUTPUTS"
PLAN_RENAME == "PLAN_RENAME"
COMMIT_MOVES == "COMMIT_MOVES"
EJECT == "EJECT"
DONE == "DONE"
ERROR == "ERROR"

RipState == {WAIT_FOR_DISC, DISC_DETECTED, RIP, VERIFY_OUTPUTS, PLAN_RENAME,
             COMMIT_MOVES, EJECT, DONE, ERROR}

\* ------------------------------------------------------------- filesystem
\* A directory tree (or a file) at a path: not there, there with all of the
\* moved content, or there with only part of it.
Absent == "absent"
Partial == "partial"
Full == "full"
DirState == {Absent, Partial, Full}

\* The three paths one safe_move touches: src, dst, and dst/basename(src)
\* (where shutil.move puts src when dst is already a directory).
MoveFs(src, dst) == [src |-> src, dst |-> dst, nested |-> Absent]

\* A move that starts deleting the source before its copy is complete.
shutil_move_delete_early(fs, is_dir) ==
    {[ok |-> FALSE, fs |-> [fs EXCEPT !.src = IF @ = Absent THEN Absent ELSE Partial,
                                      !.dst = IF fs.src = Absent THEN @ ELSE Partial]]}

\* shutil.move(src, dst) under filesystem faults: the set of [ok, fs] it can
\* end in.  ok = FALSE is a raised exception.
shutil_move(fs, is_dir) ==
    LET into_dst == ~(is_dir /\ fs.dst # Absent)
        target == IF into_dst THEN fs.dst ELSE fs.nested
        Put(s, t) == IF into_dst THEN [fs EXCEPT !.src = s, !.dst = t]
                                 ELSE [fs EXCEPT !.src = s, !.nested = t]
    IN  IF fs.src = Absent
          THEN {[ok |-> FALSE, fs |-> fs]}
        ELSE IF ~into_dst /\ fs.nested # Absent
          \* "Destination path already exists"
          THEN {[ok |-> FALSE, fs |-> fs]}
        ELSE { [ok |-> TRUE,  fs |-> Put(Absent, fs.src)],   \* rename, or copy + delete
               [ok |-> FALSE, fs |-> fs],                     \* locked: nothing moved
               [ok |-> FALSE, fs |-> Put(fs.src, Partial)],   \* copy broke off
               \* copied, delete broke off: rmtree leaves part of a directory,
               \* unlink leaves the file as it was
               [ok |-> FALSE, fs |-> Put(IF is_dir THEN Partial ELSE fs.src, fs.src)] }

\* The retry loop of safe_move: up to k more attempts.  returned = TRUE is the
\* early "return" after a successful shutil.move.
RECURSIVE move_attempts(_, _, _)
move_attempts(fs, is_dir, k) ==
    IF k = 0 THEN {[returned |-> FALSE, fs |-> fs]}
    ELSE UNION { IF r.ok THEN {[returned |-> TRUE, fs |-> r.fs]}
                         ELSE move_attempts(r.fs, is_dir, k - 1)
                 : r \in shutil_move(fs, is_dir) }

\* One shutil.rmtree(src) / src.unlink(missing_ok=True) of the fallback: what
\* it leaves at src.  It succeeds, or fails leaving src as it was or, for a
\* directory, in part.
delete_source(src, is_dir) ==
    {[ok |-> TRUE, src |-> Absent], [ok |-> FALSE, src |-> src]}
    \cup (IF is_dir /\ src # Absent THEN {[ok |-> FALSE, src |-> Partial]} ELSE {})

\* The loop that deletes src after the copy: at most k attempts, the first
\* that succeeds breaks the loop.
RECURSIVE delete_attempts(_, _, _)
delete_attempts(src, is_dir, k) ==
    IF k = 0 THEN {src}
    ELSE UNION { IF r.ok THEN {r.src} ELSE delete_attempts(r.src, is_dir, k - 1)
                 : r \in delete_source(src, is_dir) }

\* "if not dst.exists(): raise RuntimeError(...)"
dst_exists_check(dst) == IF dst = Absent THEN "RuntimeError" ELSE "ok"

\* The copy-then-delete fallback of safe_move and its final dst.exists() test.
\* ret: "ok" (returned normally) or the exception raised.
move_fallback(fs, is_dir, retries) ==
    IF fs.src = Absent
      \* src.is_dir() is False, copy2 of a missing file raises
      THEN {[ret |-> "FileNotFoundError", fs |-> fs]}
    ELSE IF is_dir /\ fs.dst # Absent
      \* copytree(..., dirs_exist_ok=False)
      THEN {[ret |-> "FileExistsError", fs |-> fs]}
    ELSE
      \* the copy raises (dst not made, or made in part) ...
      { [ret |-> "CopyError", fs |-> [fs EXCEPT !.dst = d]] : d \in {fs.dst, Partial} }
      \cup
      \* ... or completes, and the source is deleted best-effort
      { [ret |-> dst_exists_check(fs.src), fs |-> [fs EXCEPT !.dst = fs.src, !.src = s]]
        : s \in delete_attempts(fs.src, is_dir, retries) }

\* safe_move(src, dst, retries): every [ret, fs] it can end in.
safe_move(fs, is_dir, retries) ==
    UNION { IF a.returned THEN {[ret |-> "ok", fs |-> a.fs]}
                          ELSE move_fallback(a.fs, is_dir, retries)
            : a \in move_attempts(fs, is_dir, retries) }

\* move_folder(folder, target_root): dest is target_root/folder.name, or a
\* timestamped name when that exists, so the move always starts from a dst
\* that is not there.
move_folder(folder) == safe_move(MoveFs(folder, Absent), TRUE, Retries)

\* ---------------------------------------------------------- keeper selection
\* infos: one [duration_sec, size_bytes] per *.mkv of the job folder, in
\* sorted(glob) order; a file the probe could not read has duration 0.
Better(infos, a, b) ==
    \/ infos[a].duration_sec > infos[b].duration_sec
    \/ /\ infos[a].duration_sec = infos[b].duration_sec
       /\ infos[a].size_bytes > infos[b].size_bytes

\* candidates.sort(key=(duration_sec, size_bytes), reverse=True): stable, so
\* equal keys keep their listing order.
RECURSIVE sort_candidates(_, _)
sort_candidates(infos, idxs) ==
    IF idxs = {} THEN <<>>
    ELSE LET best == CHOOSE a \in idxs :
                       \A b \in idxs \ {a} : Better(infos, a, b)
                                             \/ (~Better(infos, b, a) /\ a < b)
         IN  <<best>> \o sort_candidates(infos, idxs \ {best})

\* A clustering that compares a candidate with the last member of a cluster
\* instead of the first.
RECURSIVE cluster_by_last_member(_, _, _)
cluster_by_last_member(infos, cands, clusters) ==
    IF cands = <<>> THEN clusters
    ELSE LET it == Head(cands)
             hits == {c \in 1..Len(clusters) :
                        Abs(infos[clusters[c][Len(clusters[c])]].duration_sec
                            - infos[it].duration_sec) <= tol}
         IN  IF hits = {}
               THEN cluster_by_last_member(infos, Tail(cands), Append(clusters, <<it>>))
               ELSE LET c == CHOOSE x \in hits : \A y \in hits : x <= y
                    IN  cluster_by_last_member(infos, Tail(cands),
                                               [clusters EXCEPT ![c] = Append(@, it)])

\* Greedy clustering: the first cluster whose first member is within tol.
RECURSIVE cluster_candidates(_, _, _)
cluster_candidates(infos, cands, clusters) ==
    IF cands = <<>> THEN clusters
    ELSE LET it == Head(cands)
             hits == {c \in 1..Len(clusters) :
                        Abs(infos[clusters[c][1]].duration_sec - infos[it].duration_sec) <= tol}
         IN  IF hits = {}
               THEN cluster_candidates(infos, Tail(cands), Append(clusters, <<it>>))
               ELSE LET c == CHOOSE x \in hits : \A y \in hits : x <= y
                    IN  cluster_candidates(infos, Tail(cands),
                                           [clusters EXCEPT ![c] = Append(@, it)])

\* The first member of the cluster: its longest file.
first_member(infos, cl) == cl[1]

\* max(cluster, key=size_bytes): the first member of greatest size.
max_by_size(infos, cl) ==
    cl[CHOOSE k \in 1..Len(cl) :
         /\ \A l \in 1..Len(cl) : infos[cl[k]].size_bytes >= infos[cl[l]].size_bytes
         /\ \A l \in 1..(k - 1) : infos[cl[l]].size_bytes < infos[cl[k]].size_bytes]

\* A candidate list that keeps every file, whatever its duration.
keeper_candidates_unfiltered(infos, min_main_seconds) ==
    sort_candidates(infos, 1..Len(infos))

keeper_candidates(infos, min_main_seconds) ==
    sort_candidates(infos, {i \in 1..Len(infos) : infos[i].duration_sec >= min_main_seconds})

keeper_clusters(infos, min_main_seconds) ==
    cluster_candidates(infos, keeper_candidates(infos, min_main_seconds), <<>>)

\* A test that looks for a gap above the threshold between the top cluster
\* and any other cluster.
multi_cut_any_cluster(infos, clusters) ==
    \E c \in 2..Len(clusters) :
       Abs(infos[clusters[1][1]].duration_sec - infos[clusters[c][1]].duration_sec) > multi_cut

\* A test that never finds the selection ambiguous.
multi_cut_never(infos, clusters) == FALSE

\* Whether the disambiguation prompt is shown.
multi_cut_ambiguous(infos, clusters) ==
    /\ Len(clusters) > 1
    /\ Abs(infos[clusters[1][1]].duration_sec - infos[clusters[2][1]].duration_sec) > multi_cut

\* What prompt_real_cut_choice can answer for these candidates.
PromptChoices(cands) ==
    {[action |-> "review", path |-> 0], [action |-> "review_keep_all", path |-> 0]}
    \cup {[action |-> "keep_one", path |-> cands[k]] : k \in 1..Len(cands)}

KeeperResult(status, reason, keeper) ==
    [status |-> status, reason |-> reason, keeper_path |-> keeper]

pick_keeper_or_prompt(infos, min_main_seconds, choice) ==
    LET candidates == keeper_candidates(infos, min_main_seconds)
        clusters == keeper_clusters(infos, min_main_seconds)
    IN  IF Len(infos) = 0 THEN KeeperResult("review", "no_mkv_files", 0)
        ELSE IF candidates = <<>> THEN KeeperResult("review", "no_candidate_over_45m", 0)
        ELSE IF multi_cut_ambiguous(infos, clusters)
          THEN CASE choice.action = "review_keep_all" ->
                      KeeperResult("review", "user_chose_keep_all_to_review", 0)
                 [] choice.action = "review" ->
                      KeeperResult("review", "user_sent_to_review", 0)
                 [] choice.action = "keep_one" ->
                      KeeperResult("success", "user_selected_cut", choice.path)
                 [] OTHER -> KeeperResult("review", "no_user_choice", 0)
        ELSE KeeperResult("success", "auto_selected_best_candidate",
                          max_by_size(infos, clusters[1]))

\* keeper_res["candidates"]: the sorted candidates (<<>> when the result has
\* no such entry).
result_candidates(infos, min_main_seconds) ==
    [k \in 1..Len(keeper_candidates(infos, min_main_seconds)) |->
       infos[keeper_candidates(infos, min_main_seconds)[k]]]

\* ------------------------------------------------------- tv: the matcher
\* A value that is None in the program (a missing declared runtime, a probe
\* that failed).
None == -1

\* minutes_to_seconds(m) = int(round(m * 60)), for whole minutes
minutes_to_seconds(m) == m * 60

RECURSIVE SortAsc(_)
SortAsc(s) ==
    IF s = <<>> THEN <<>>
    ELSE LET k == CHOOSE a \in 1..Len(s) : \A b \in 1..Len(s) : s[a] <= s[b]
         IN  <<s[k]>> \o SortAsc(SubSeq(s, 1, k - 1) \o SubSeq(s, k + 1, Len(s)))

\* The lower of the two middle values (statistics.median_low).
median_low(durs) == durs[(Len(durs) + 1) \div 2]

\* statistics.median of a sorted non-empty list, then int(): the middle value,
\* or the mean of the two middle values truncated.
median_int(durs) ==
    LET n == Len(durs)
    IN  IF n % 2 = 1 THEN durs[(n + 1) \div 2]
        ELSE (durs[n \div 2] + durs[n \div 2 + 1]) \div 2

\* 20% of n rounded up, at least 1.
trim_count_rounded_up(n) == Max(1, (n + 4) \div 5)

\* max(1, int(round(n * 0.20))): n * 0.20 is never exactly halfway between
\* two integers, so round() is round-to-nearest.
trim_count(n) == Max(1, (2 * n + 5) \div 10)

\* The locals trim and durs of compute_typical_runtime_seconds when it
\* reaches the median: trim is None when len(durs) < 5 leaves it unassigned,
\* durs is the core when the trimming left one.
typical_runtime_locals(durations) ==
    LET ints == SelectSeq(durations, LAMBDA d : d # None)
        durs == SortAsc(ints)
        n == Len(durs)
        trim == trim_count(n)
        core == IF n >= 5 THEN SubSeq(durs, trim + 1, n - trim) ELSE durs
    IN  [trim |-> IF n >= 5 THEN trim ELSE None,
         durs |-> IF core # <<>> THEN core ELSE durs]

\* compute_typical_runtime_seconds over the files' duration_s (None when
\* there is no duration at all).
compute_typical_runtime_seconds(durations) ==
    IF typical_runtime_locals(durations).durs = <<>> THEN None
    ELSE median_int(typical_runtime_locals(durations).durs)

\* The loop body without its outlier branch: a declared range is always
\* compared with the typical window.
episode_window_no_outlier(e, typical_s, manifest_buf_min, typical_buf_min, special_delta_min) ==
    LET typical_min_s == Max(60, typical_s - minutes_to_seconds(typical_buf_min))
        typical_max_s == typical_s + minutes_to_seconds(typical_buf_min)
        mi == e.min_minutes
        ma == e.max_minutes
        raw_min_s == Max(60, minutes_to_seconds(Max(1, mi - manifest_buf_min)))
        raw_max_s == minutes_to_seconds(ma + manifest_buf_min)
    IN  IF mi = None \/ ma = None
          THEN [min_s |-> typical_min_s, max_s |-> typical_max_s]
        ELSE IF raw_min_s <= typical_s /\ typical_s <= raw_max_s
          THEN [min_s |-> Max(raw_min_s, typical_min_s),
                max_s |-> Min(raw_max_s, typical_max_s)]
        ELSE [min_s |-> typical_min_s, max_s |-> typical_max_s]

\* The loop body with every declared range taken as it is, never intersected
\* with the typical window.
episode_window_declared_only(e, typical_s, manifest_buf_min, typical_buf_min, special_delta_min) ==
    LET mi == e.min_minutes
        ma == e.max_minutes
    IN  IF mi = None \/ ma = None
          THEN [min_s |-> Max(60, typical_s - minutes_to_seconds(typical_buf_min)),
                max_s |-> typical_s + minutes_to_seconds(typical_buf_min)]
        ELSE [min_s |-> Max(60, minutes_to_seconds(Max(1, mi - manifest_buf_min))),
              max_s |-> minutes_to_seconds(ma + manifest_buf_min)]

\* build_episode_windows for one episode e = [min_minutes, max_minutes].
episode_window(e, typical_s, manifest_buf_min, typical_buf_min, special_delta_min) ==
    LET typical_min_s == Max(60, typical_s - minutes_to_seconds(typical_buf_min))
        typical_max_s == typical_s + minutes_to_seconds(typical_buf_min)
        mi == e.min_minutes
        ma == e.max_minutes
        raw_min_s == Max(60, minutes_to_seconds(Max(1, mi - manifest_buf_min)))
        raw_max_s == minutes_to_seconds(ma + manifest_buf_min)
    IN  IF mi = None \/ ma = None
          THEN [min_s |-> typical_min_s, max_s |-> typical_max_s]
        \* abs((mi + ma) / 2.0 - typical_s / 60.0) >= special_delta_min
        ELSE IF Abs(60 * (mi + ma) - 2 * typical_s) >= 120 * special_delta_min
          THEN [min_s |-> raw_min_s, max_s |-> raw_max_s]
        ELSE IF raw_min_s <= typical_s /\ typical_s <= raw_max_s
          THEN [min_s |-> Max(raw_min_s, typical_min_s),
                max_s |-> Min(raw_max_s, typical_max_s)]
        ELSE [min_s |-> typical_min_s, max_s |-> typical_max_s]

build_episode_windows(eps, typical_s, manifest_buf_min, typical_buf_min, special_delta_min) ==
    [k \in 1..Len(eps) |->
       episode_window(eps[k], typical_s, manifest_buf_min, typical_buf_min, special_delta_min)]

\* INF = 10**18 in the program; here a value above every finite cost that
\* fits TLC's integers.  Costs are in 1/120 minute (half seconds), so that
\* abs(dur - mid) / 60.0 with mid = (min_s + max_s) / 2.0 is a whole number.
INF == 1000000000

\* x + y in floating point next to the sentinel: 1e18 + y is 1e18 again.
FloatAdd(x, y) == IF x >= INF \/ y >= INF THEN INF ELSE x + y

\* A cost that does not look at the window.
match_cost_any_window(e, dur) ==
    IF dur = None THEN INF ELSE Abs(2 * dur - (e.min_s + e.max_s))

\* A cost that looks at the lower bound of the window only.
match_cost_no_upper_bound(e, dur) ==
    IF dur = None THEN INF
    ELSE IF ~(e.min_s <= dur) THEN INF
    ELSE Abs(2 * dur - (e.min_s + e.max_s))

\* cost(i, j) of dp_map_files_to_episodes; INF stands for float("inf").
match_cost(e, dur) ==
    IF dur = None THEN INF
    ELSE IF ~(e.min_s <= dur /\ dur <= e.max_s) THEN INF
    ELSE Abs(2 * dur - (e.min_s + e.max_s))

\* A comparison that takes the file whenever its cost is finite.
take_whenever_finite(cand, best) == TRUE

\* A comparison that also takes the file on an equal cost.
take_on_tie(cand, best) == cand <= best

\* "if cand < best": the file is taken only on a strictly lower cost.
take_match(cand, best) == cand < best

\* The two tables the double loop fills: [dp, take], indexed [i, j].
dp_tables(eps_win, durs, skip_penalty) ==
    LET m == Len(eps_win)
        n == Len(durs)
        dp[i \in 0..m, j \in 0..n] ==
          IF i = 0 THEN (IF j = 0 THEN 0 ELSE FloatAdd(dp[0, j - 1], skip_penalty))
          ELSE IF j = 0 THEN INF
          ELSE LET best == FloatAdd(dp[i, j - 1], skip_penalty)
                   c == match_cost(eps_win[i], durs[j])
                   cand == FloatAdd(dp[i - 1, j - 1], c)
               IN  IF c # INF /\ take_match(cand, best) THEN cand ELSE best
        take == [i \in 0..m, j \in 0..n |->
                  IF i = 0 \/ j = 0 THEN 0
                  ELSE LET best == FloatAdd(dp[i, j - 1], skip_penalty)
                           c == match_cost(eps_win[i], durs[j])
                           cand == FloatAdd(dp[i - 1, j - 1], c)
                       IN  IF c # INF /\ take_match(cand, best) THEN 1 ELSE 0]
    IN  [dp |-> dp, take |-> take]

\* A backtracking loop without the final pairs.reverse().
RECURSIVE dp_backtrack_unreversed(_, _, _, _)
dp_backtrack_unreversed(take, i, j, pairs) ==
    IF i > 0 /\ j > 0
      THEN IF take[i, j] = 1
             THEN dp_backtrack_unreversed(take, i - 1, j - 1, pairs \o <<<<i - 1, j - 1>>>>)
             ELSE dp_backtrack_unreversed(take, i, j - 1, pairs)
      ELSE [i |-> i, pairs |-> pairs]

\* A backtracking loop that stays on the same file after taking it.
RECURSIVE dp_backtrack_same_file(_, _, _, _)
dp_backtrack_same_file(take, i, j, pairs) ==
    IF i > 0 /\ j > 0
      THEN IF take[i, j] = 1
             THEN dp_backtrack_same_file(take, i - 1, j, <<<<i - 1, j - 1>>>> \o pairs)
             ELSE dp_backtrack_same_file(take, i, j - 1, pairs)
      ELSE [i |-> i, pairs |-> pairs]

\* The backtracking loop; pairs are (i - 1, j - 1), 0-based as in the program.
RECURSIVE dp_backtrack(_, _, _, _)
dp_backtrack(take, i, j, pairs) ==
    IF i > 0 /\ j > 0
      THEN IF take[i, j] = 1
             THEN dp_backtrack(take, i - 1, j - 1, <<<<i - 1, j - 1>>>> \o pairs)
             ELSE dp_backtrack(take, i, j - 1, pairs)
      ELSE [i |-> i, pairs |-> pairs]

\* An error that is 0 for every duration inside the window.
error_outside_window(e, dur) ==
    IF e.min_s <= dur /\ dur <= e.max_s THEN 0 ELSE Abs(2 * dur - (e.min_s + e.max_s))

\* One entry of errs: abs(duration_s - (min_s + max_s) / 2.0) / 60.0.
assignment_error(e, dur) == Abs(2 * dur - (e.min_s + e.max_s))

\* A matcher that returns what the backtracking collected without testing
\* the sentinel or the units left over.
dp_map_without_checks(eps_win, durs, skip_penalty) ==
    LET t == dp_tables(eps_win, durs, skip_penalty)
        b == dp_backtrack(t.take, Len(eps_win), Len(durs), <<>>)
    IN  [ok |-> TRUE, pairs |-> b.pairs, err_sum |-> 0]

\* dp_map_files_to_episodes: [ok, pairs, err_sum].  ok = FALSE is the result
\* (None, inf); avg_err is err_sum / Len(pairs) (inf when there is no pair).
dp_map_files_to_episodes(eps_win, durs, skip_penalty) ==
    LET m == Len(eps_win)
        n == Len(durs)
        t == dp_tables(eps_win, durs, skip_penalty)
        b == dp_backtrack(t.take, m, n, <<>>)
        errs == [k \in 1..Len(b.pairs) |->
                   assignment_error(eps_win[b.pairs[k][1] + 1], durs[b.pairs[k][2] + 1])]
    IN  IF 2 * t.dp[m, n] >= INF THEN [ok |-> FALSE, pairs |-> <<>>, err_sum |-> INF]
        ELSE IF b.i # 0 THEN [ok |-> FALSE, pairs |-> <<>>, err_sum |-> INF]
        ELSE [ok |-> TRUE, pairs |-> b.pairs, err_sum |-> SeqSum(errs)]

\* A ceiling test that lets every mean error pass.
avg_err_never_exceeds(res, max_avg_err) == FALSE

\* "avg_err > max_avg_err", avg_err = err_sum / n_pairs in 1/120 minute.
avg_err_exceeds(res, max_avg_err) ==
    IF Len(res.pairs) = 0 THEN TRUE ELSE res.err_sum > max_avg_err * Len(res.pairs)

\* ------------------------------------------------------------ configuration
\* The values cmd_rip reads from config.json (DEFAULT_CONFIG merged with the
\* file, load_timing_policy) and from its arguments.
\*   dry_run       args.dry_run
\*   drive_letter  whether a drive letter is known (eject.drive_letter, else
\*                 what get_optical_drive_letter() detects)
MovieFlags == {"eject_enabled", "eject_on_success", "eject_on_error", "copy_mode",
               "safe_commit", "cleanup_on_success", "keep_raw", "archive_raw_on_success"}

DEFAULT_CONFIG ==
    [eject_enabled |-> TRUE, eject_on_success |-> TRUE, eject_on_error |-> FALSE,
     copy_mode |-> FALSE, safe_commit |-> TRUE,
     cleanup_on_success |-> FALSE, keep_raw |-> TRUE, archive_raw_on_success |-> TRUE]

\* The settings of c that are not DEFAULT_CONFIG's.
Changed(c) == {f \in MovieFlags : c[f] # DEFAULT_CONFIG[f]}

MovieConfigs ==
    {c \in [dry_run : BOOLEAN, drive_letter : BOOLEAN,
            eject_enabled : BOOLEAN, eject_on_success : BOOLEAN, eject_on_error : BOOLEAN,
            copy_mode : BOOLEAN, safe_commit : BOOLEAN,
            cleanup_on_success : BOOLEAN, keep_raw : BOOLEAN,
            archive_raw_on_success : BOOLEAN] :
       Cardinality(Changed(c)) <= MaxChanged}

\* ---------------------------------------------------------------- job state
NoReceipt == [status |-> "none", reason |-> ""]
NoKeeper == KeeperResult("none", "", 0)

\* The per-item locals of cmd_rip's loop body and the job's files on disk.
\*   elapsed    time.monotonic() - wait_started, in poll intervals; read only
\*              inside the wait loop
\*   infos      what pick_keeper_or_prompt probed of each file of the folder
\*   dirs       the job folder under the raw root and under each target root
\*   receipt    .discmapper.receipt.json of the job folder
\*   ready_dest the deliverable at its planned destination under ready_root
\*   error      the exception the except handler caught ("": none)
\*   fatal      the exception that left cmd_rip ("": none)
NewJob ==
    [state_order |-> <<>>, exited |-> {},
     errored |-> FALSE, verify_ok |-> FALSE, commit_ok |-> FALSE, ejected |-> FALSE,
     elapsed |-> 0, rc |-> 0, mkvs |-> <<>>, infos |-> <<>>,
     keeper_res |-> NoKeeper, candidates |-> <<>>,
     dirs |-> [raw |-> Full, unable |-> Absent, review |-> Absent, done |-> Absent],
     receipt |-> NoReceipt, ready_dest |-> "missing", error |-> "", fatal |-> ""]

\* enter(state): state_times[state] = {"entered_at": ts}; state_order.append(state)
enter(j, state) ==
    [j EXCEPT !.state_order = Append(@, state), !.exited = @ \ {state}]

\* exit_state(state): state_times[state]["exited_at"] = ts
exit_state(j, state) == [j EXCEPT !.exited = @ \cup {state}]

\* An exception that is swallowed: the job goes on to DONE.
raise_swallowed(j, reason) ==
    /\ job' = [j EXCEPT !.error = reason]
    /\ pc' = DONE
    /\ UNCHANGED <<pipeline, cfg, qpos, run>>

\* An exception raised inside the try block: control goes to the handler.
Raise(j, reason) ==
    /\ job' = [j EXCEPT !.error = reason]
    /\ pc' = "EXCEPT"
    /\ UNCHANGED <<pipeline, cfg, qpos, run>>

\* An exception nothing catches: it leaves cmd_rip / cmd_rip_queue.
Uncaught(j, reason) ==
    /\ job' = [j EXCEPT !.fatal = reason]
    /\ pc' = "END"
    /\ run' = "aborted"
    /\ UNCHANGED <<pipeline, cfg, qpos>>

Goto(j, next) ==
    /\ job' = j
    /\ pc' = next
    /\ UNCHANGED <<pipeline, cfg, qpos, run>>

\* "(time.monotonic() - wait_started) > max_wait_s"
wait_timed_out(elapsed) == elapsed > MaxWaitPolls

\* "if rc != 0: raise RuntimeError(makemkv_error_rc_...)"
rip_failed(rc, mkvs) == rc # 0

\* VERIFY_OUTPUTS: the exception it raises, or "" when the outputs pass.
verify_outputs(mkvs) ==
    IF Len(mkvs) = 0 THEN "no_mkvs_produced"
    ELSE IF ~(\A k \in 1..Len(mkvs) : mkvs[k] > 0) THEN "mkv_zero_byte_file_detected"
    ELSE ""

\* A commit verification that tests dest.exists() only, not its size.
commit_verification_exists_only(c, dest) == c.safe_commit /\ dest = "missing"

\* "if policy.safe_commit: if not dest.exists() or dest.stat().st_size <= 0: raise"
commit_verification_failed(c, dest) == c.safe_commit /\ dest # "ok"

\* A success-path eject test that does not look at eject.enabled.
should_eject_ignoring_enabled(c, j) ==
    c.eject_on_success /\ j.verify_ok /\ j.commit_ok /\ c.drive_letter

\* should_eject and the drive-letter test of the success path
should_eject(c, j) ==
    c.eject_enabled /\ c.eject_on_success /\ j.verify_ok /\ j.commit_ok /\ c.drive_letter

\* The eject test of the except handler
eject_on_error(c) == c.eject_enabled /\ c.eject_on_error /\ c.drive_letter

\* The root the except handler relocates the job folder to.
error_target_root(reason) == "unable"

\* ------------------------------------------------------- movies: cmd_rip
M_WaitForDisc ==
    /\ pipeline = "movies" /\ pc = WAIT_FOR_DISC
    /\ Goto(enter(job, WAIT_FOR_DISC), "POLL")

\* One pass of the poll loop.
M_Poll ==
    /\ pipeline = "movies" /\ pc = "POLL"
    /\ \E media_loaded \in BOOLEAN :
         IF cfg.dry_run \/ media_loaded
           THEN Goto(exit_state([job EXCEPT !.elapsed = 0], WAIT_FOR_DISC), DISC_DETECTED)
         ELSE IF wait_timed_out(job.elapsed)
           THEN Raise([job EXCEPT !.elapsed = 0], "TimeoutError")
         ELSE Goto([job EXCEPT !.elapsed = @ + 1], "POLL")

M_DiscDetected ==
    /\ pipeline = "movies" /\ pc = DISC_DETECTED
    /\ LET j == enter(job, DISC_DETECTED)
       IN  \E structure_ok \in BOOLEAN :
             IF ~cfg.dry_run /\ cfg.drive_letter /\ ~structure_ok
               THEN Raise(j, "disc_structure_check_failed")
               ELSE Goto(exit_state(j, DISC_DETECTED), RIP)

\* st_size of a ripped title: zero bytes, or not.
FileSizes == {0, 1}

M_Rip ==
    /\ pipeline = "movies" /\ pc = RIP
    /\ LET j == enter(job, RIP)
       IN  \E rc \in {0, 1}, mkvs \in SeqsUpTo(FileSizes, MaxFiles) :
             /\ cfg.dry_run => (rc = 0 /\ mkvs = <<1>>)
             /\ LET j2 == [j EXCEPT !.rc = rc, !.mkvs = mkvs]
                IN  IF rip_failed(rc, mkvs)
                      THEN Raise(j2, "makemkv_error_rc")
                      ELSE Goto(exit_state(j2, RIP), VERIFY_OUTPUTS)

M_VerifyOutputs ==
    /\ pipeline = "movies" /\ pc = VERIFY_OUTPUTS
    /\ LET j == enter(job, VERIFY_OUTPUTS)
           bad == verify_outputs(job.mkvs)
       IN  IF bad # ""
             THEN Raise(j, bad)
             ELSE Goto(exit_state([j EXCEPT !.verify_ok = TRUE], VERIFY_OUTPUTS), PLAN_RENAME)

\* Durations the probe reports (0: the probe failed; 2699: one second under
\* the floor).
MovieDurs == {0, 2699, 2700, 2702, 2800, 3000}

M_PlanRename ==
    /\ pipeline = "movies" /\ pc = PLAN_RENAME
    /\ LET j == enter(job, PLAN_RENAME)
       IN  \E durs \in [1..Len(job.mkvs) -> MovieDurs] :
             LET infos == [k \in 1..Len(job.mkvs) |->
                             [duration_sec |-> durs[k], size_bytes |-> job.mkvs[k]]]
             IN  \E choice \in PromptChoices(keeper_candidates(infos, min_main)) :
                   LET keeper_res ==
                         IF cfg.dry_run THEN KeeperResult("success", "dry_run", 1)
                         ELSE pick_keeper_or_prompt(infos, min_main, choice)
                       j2 == [j EXCEPT !.keeper_res = keeper_res,
                                       !.infos = IF cfg.dry_run THEN <<>> ELSE infos,
                                       !.candidates = IF cfg.dry_run THEN <<>>
                                                      ELSE result_candidates(infos, min_main)]
                   IN  IF keeper_res.status # "success"
                         THEN Raise(j2, "review_required:" \o keeper_res.reason)
                         ELSE Goto(exit_state(j2, PLAN_RENAME), COMMIT_MOVES)

\* What copy2 / safe_move of the keeper end in: the exception raised ("ok": none)
\* and what dest.exists() / dest.stat() then find at the destination.
commit_transfer(c) ==
    IF c.copy_mode
      THEN {[ret |-> "CopyError", dest |-> "missing"]}
           \cup {[ret |-> "ok", dest |-> d] : d \in {"ok", "empty", "missing"}}
      ELSE {[ret |-> r.ret, dest |-> d] :
              r \in safe_move(MoveFs(Full, Absent), FALSE, Retries),
              d \in {"ok", "empty", "missing"}}

M_CommitMoves ==
    /\ pipeline = "movies" /\ pc = COMMIT_MOVES
    /\ LET j == enter(job, COMMIT_MOVES)
       IN  \E t \in commit_transfer(cfg), wrote \in BOOLEAN :
             LET j2 == [j EXCEPT !.ready_dest = t.dest]
                 j3 == [j2 EXCEPT !.commit_ok = TRUE]
                 j4 == [j3 EXCEPT !.receipt = [status |-> "success",
                                               reason |-> job.keeper_res.reason]]
             IN  IF t.ret # "ok" THEN Raise(j2, t.ret)
                 ELSE IF commit_verification_failed(cfg, t.dest)
                   THEN Raise(j2, "commit_verification_failed")
                 ELSE IF ~wrote THEN Raise(j3, "WriteError")
                 ELSE Goto(exit_state(j4, COMMIT_MOVES), "ARCHIVE")

\* cleanup_on_success / archive_raw_on_success, after COMMIT_MOVES has exited.
M_Archive ==
    /\ pipeline = "movies" /\ pc = "ARCHIVE"
    /\ IF cfg.cleanup_on_success /\ ~cfg.keep_raw
         THEN \E left \in {Absent, Partial} :
                Goto([job EXCEPT !.dirs.raw = left,
                                 !.receipt = IF left = Absent THEN NoReceipt ELSE @],
                     EJECT)
       ELSE IF cfg.archive_raw_on_success /\ ~cfg.keep_raw
         THEN \E r \in move_folder(job.dirs.raw) :
                LET j == [job EXCEPT !.dirs.raw = r.fs.src, !.dirs.done = r.fs.dst]
                IN  IF r.ret # "ok" THEN Raise(j, r.ret) ELSE Goto(j, EJECT)
       ELSE Goto(job, EJECT)

M_Eject ==
    /\ pipeline = "movies" /\ pc = EJECT
    /\ IF should_eject(cfg, job)
         THEN LET j == enter(job, EJECT)
              IN  \E raised \in BOOLEAN :
                    IF raised THEN Raise(j, "EjectError")
                    ELSE Goto(exit_state([j EXCEPT !.ejected = TRUE], EJECT), DONE)
         ELSE Goto(job, DONE)

M_Done ==
    /\ pipeline = "movies" /\ pc = DONE
    /\ Goto(exit_state(enter(job, DONE), DONE), "SUMMARY")

\* except Exception as e: ...
M_Error ==
    /\ pipeline = "movies" /\ pc = "EXCEPT"
    /\ LET j == enter([job EXCEPT !.errored = TRUE], ERROR)
       IN  \E wrote \in BOOLEAN, r \in move_folder(IF job.dirs.raw = Absent THEN Partial
                                                   ELSE job.dirs.raw),
              raised \in BOOLEAN :
             LET j2 == [j EXCEPT !.receipt = [status |-> "unable", reason |-> job.error],
                                 !.dirs.raw = IF @ = Absent THEN Partial ELSE @]
                 root == error_target_root(job.error)
                 j3 == IF cfg.dry_run THEN j2
                       ELSE [j2 EXCEPT !.dirs.raw = r.fs.src, !.dirs[root] = r.fs.dst]
                 j4 == enter(j3, EJECT)
                 j5 == IF eject_on_error(cfg)
                         THEN exit_state([j4 EXCEPT !.ejected = TRUE], EJECT)
                         ELSE j3
             IN  IF ~wrote THEN Uncaught(j, "WriteError")
                 ELSE IF ~cfg.dry_run /\ r.ret # "ok" THEN Uncaught(j3, r.ret)
                 ELSE IF eject_on_error(cfg) /\ raised THEN Uncaught(j4, "EjectError")
                 ELSE Goto(exit_state(j5, ERROR), "SUMMARY")

\* The run summary is printed; the for loop takes the next item (per-item
\* locals reset, job_dir made, .discmapper.job.json written) or ends the run.
M_Summary ==
    /\ pipeline = "movies" /\ pc = "SUMMARY"
    /\ IF qpos < QueueLen
         THEN qpos' = qpos + 1 /\ pc' = WAIT_FOR_DISC /\ run' = run /\ job' = NewJob
         ELSE qpos' = qpos /\ pc' = "END" /\ run' = "completed" /\ job' = job
    /\ UNCHANGED <<pipeline, cfg>>

\* --------------------------------------------------- tv: cmd_rip_queue
\* DEFAULT_CONFIG of discmapper_tv_v02.py, minutes (costs in 1/120 minute).
rip_floor_minutes == 6
manifest_minlength_buffer_minutes == 2
match_manifest_buffer_minutes == 12
match_typical_buffer_minutes == 8
special_runtime_delta_minutes == 10
\* 4.0 minutes
max_avg_error_for_auto == 480
\* 2.0 minutes
skip_title_penalty == 240

TvConfigs == [auto_eject : BOOLEAN]

\* Episodes of one disc as the index holds them: declared runtimes in minutes.
Episode(mi, ma) == [min_minutes |-> mi, max_minutes |-> ma]
EpisodeKinds == {Episode(None, None), Episode(20, 24), Episode(40, 48)}
\* episodes_by_key.get(key): <<>> when the key is missing from the index.
EpsLists == SeqsUpTo(EpisodeKinds, MaxEps)

\* Durations ffprobe_duration_seconds reports (None: the probe failed).
TvDurs == {None, 300, 1320, 1860, 2640}

\* The per-key locals of cmd_rip_queue's loop body and the job's files on disk.
\*   files      the files list: [duration_s, title_index] per kept title
\*   outcome    where the job ended: "unable", "review", "done", "skipped"
\*   slept      parity of the time.sleep(poll_seconds) calls of the disc wait
\*   moved      episodes moved to the Ready area
\*   receipt    .discmapper.receipt.json of the job folder (never written)
\*   fatal      the exception that left cmd_rip_queue ("": none)
NewTvJob(eps) ==
    [eps |-> eps, slept |-> 0, rc |-> 0, mkvs |-> <<>>, first_index |-> 0, ejected |-> FALSE,
     probed |-> FALSE, files |-> <<>>, pairs |-> <<>>, moved |-> 0,
     outcome |-> "", cause |-> "",
     dirs |-> [raw |-> Absent, unable |-> Absent, review |-> Absent, done |-> Absent],
     receipt |-> NoReceipt, fatal |-> ""]

\* disc_floor_min: manifest-driven when an episode declares a minimum.
disc_floor_minutes(eps) ==
    LET mins == {eps[k].min_minutes : k \in 1..Len(eps)} \ {None}
        lo == CHOOSE x \in mins : \A y \in mins : x <= y
    IN  IF mins = {} THEN rip_floor_minutes
        ELSE Max(1, lo - Max(0, manifest_minlength_buffer_minutes))

\* files.sort(key=(title_index is None, title_index or 9999, name.lower())):
\* a title index of 0 is falsy and sorts as 9999.
title_sort_key(f) == IF f.title_index = 0 THEN 9999 ELSE f.title_index

RECURSIVE sort_files(_)
sort_files(files) ==
    IF files = <<>> THEN <<>>
    ELSE LET k == CHOOSE a \in 1..Len(files) :
                    \A b \in 1..Len(files) :
                       title_sort_key(files[a]) < title_sort_key(files[b])
                       \/ (title_sort_key(files[a]) = title_sort_key(files[b]) /\ a <= b)
         IN  <<files[k]>> \o sort_files(SubSeq(files, 1, k - 1) \o SubSeq(files, k + 1, Len(files)))

\* safe_move(job_dir, <root> / job_name); continue
Quarantine(j, root, cause) ==
    \E r \in safe_move(MoveFs(j.dirs.raw, Absent), TRUE, Retries) :
       LET j2 == [j EXCEPT !.dirs.raw = r.fs.src, !.dirs[root] = r.fs.dst]
       IN  IF r.ret = "ok"
             THEN Goto([j2 EXCEPT !.outcome = root, !.cause = cause], "T_NEXT")
             ELSE Uncaught(j2, r.ret)

\* "if not eps: continue", then wait_for_disc_insert(): one pass of its loop.
T_WaitForDisc ==
    /\ pipeline = "tv" /\ pc = "T_WAIT"
    /\ IF job.eps = <<>>
         THEN Goto([job EXCEPT !.outcome = "skipped"], "T_NEXT")
         ELSE \E drives \in {"loaded", "empty", "error"} :
                CASE drives = "loaded" -> Goto([job EXCEPT !.slept = 0], "T_RIP")
                  [] drives = "empty" -> Goto([job EXCEPT !.slept = 1 - @], "T_WAIT")
                  [] OTHER -> Uncaught([job EXCEPT !.slept = 0], "CalledProcessError")

\* job_dir made, makemkv_rip_all, auto-eject.
T_Rip ==
    /\ pipeline = "tv" /\ pc = "T_RIP"
    /\ LET j == [job EXCEPT !.dirs.raw = Full]
       IN  \E rc \in {0, 1}, mkvs \in SeqsUpTo(FileSizes, MaxFiles), first_index \in {0, 1},
              rip_raised \in BOOLEAN, eject_raised \in BOOLEAN :
             IF rip_raised THEN Uncaught(j, "FileNotFoundError")
             ELSE Goto([j EXCEPT !.rc = rc, !.mkvs = mkvs, !.first_index = first_index,
                                 !.ejected = cfg.auto_eject /\ ~eject_raised],
                       "T_VERIFY")

\* "if not mkvs: ... Unable_to_Read"
T_Verify ==
    /\ pipeline = "tv" /\ pc = "T_VERIFY"
    /\ IF Len(job.mkvs) = 0
         THEN Quarantine(job, "unable", "no_mkvs_produced")
         ELSE Goto(job, "T_PROBE")

\* The probe loop: a failed probe sends the job to Review and breaks; a
\* title shorter than the disc floor is left out.
T_Probe ==
    /\ pipeline = "tv" /\ pc = "T_PROBE"
    /\ \E durs \in [1..Len(job.mkvs) -> TvDurs] :
         /\ \A k \in 1..Len(job.mkvs) : job.mkvs[k] = 0 => durs[k] = None
         /\ LET disc_floor_s == minutes_to_seconds(disc_floor_minutes(job.eps))
                kept == {k \in 1..Len(durs) : durs[k] # None /\ durs[k] >= disc_floor_s}
                all == [k \in 1..Len(durs) |->
                          [duration_s |-> durs[k], title_index |-> job.first_index + k - 1,
                           keep |-> k \in kept]]
                files == [k \in 1..Cardinality(kept) |->
                            LET f == SelectSeq(all, LAMBDA x : x.keep)[k]
                            IN  [duration_s |-> f.duration_s, title_index |-> f.title_index]]
                j == [job EXCEPT !.probed = TRUE]
            IN  IF \E k \in 1..Len(durs) : durs[k] = None
                  THEN Quarantine(j, "review", "ffprobe_failed")
                  ELSE Goto([j EXCEPT !.files = files], "T_PLAN")

\* The duration_s of the sorted files, in their order.
sorted_durations(files) ==
    [k \in 1..Len(files) |-> sort_files(files)[k].duration_s]

\* eps_win = build_episode_windows(eps, typical_s=typical_s, ...)
planned_windows(eps, files) ==
    build_episode_windows(eps, compute_typical_runtime_seconds(sorted_durations(files)),
        match_manifest_buffer_minutes, match_typical_buffer_minutes,
        special_runtime_delta_minutes)

\* pairs, avg_err = dp_map_files_to_episodes(eps_win, files, skip_penalty)
planned_mapping(eps, files) ==
    dp_map_files_to_episodes(planned_windows(eps, files), sorted_durations(files),
        skip_title_penalty)

\* The for-else branch up to the mapping decision.
T_Plan ==
    /\ pipeline = "tv" /\ pc = "T_PLAN"
    /\ LET files == sort_files(job.files)
           typical_s == compute_typical_runtime_seconds(sorted_durations(job.files))
           eps_win == planned_windows(job.eps, job.files)
           res == planned_mapping(job.eps, job.files)
           j == [job EXCEPT !.files = files]
       IN  IF Len(job.files) < Len(job.eps)
             THEN Quarantine(job, "review", "not_enough_files")
           ELSE IF typical_s = None
             THEN Quarantine(j, "review", "no_typical_runtime")
           ELSE IF ~res.ok \/ avg_err_exceeds(res, max_avg_error_for_auto)
                   \/ Len(res.pairs) # Len(eps_win)
             THEN Quarantine(j, "review", "mapping_uncertain")
           ELSE Goto([j EXCEPT !.pairs = res.pairs], "T_COMMIT")

\* The move loop over pairs, then the job folder goes to the done root.
T_Commit ==
    /\ pipeline = "tv" /\ pc = "T_COMMIT"
    /\ \E k \in 0..Len(job.pairs) :
         LET j == [job EXCEPT !.moved = k]
         IN  IF k < Len(job.pairs)
               \* the (k+1)-th safe_move(src, final) raises
               THEN \E r \in safe_move(MoveFs(Full, Absent), FALSE, Retries) :
                      r.ret # "ok" /\ Uncaught(j, r.ret)
               ELSE \E r \in safe_move(MoveFs(j.dirs.raw, Absent), TRUE, Retries) :
                      LET j2 == [j EXCEPT !.dirs.raw = r.fs.src, !.dirs.done = r.fs.dst]
                      IN  IF r.ret = "ok"
                            THEN Goto([j2 EXCEPT !.outcome = "done"], "T_NEXT")
                            ELSE Uncaught(j2, r.ret)

\* The for loop takes the next key, or the run ends.
T_Next ==
    /\ pipeline = "tv" /\ pc = "T_NEXT"
    /\ IF qpos < QueueLen
         THEN /\ qpos' = qpos + 1 /\ pc' = "T_WAIT" /\ run' = run
              /\ \E eps \in EpsLists : job' = NewTvJob(eps)
         ELSE qpos' = qpos /\ pc' = "END" /\ run' = "completed" /\ job' = job
    /\ UNCHANGED <<pipeline, cfg>>

\* ------------------------------------------------------------ specification
InitMovies ==
    /\ pipeline = "movies"
    /\ cfg \in MovieConfigs
    /\ pc = WAIT_FOR_DISC
    /\ job = NewJob

InitTv ==
    /\ pipeline = "tv"
    /\ cfg \in TvConfigs
    /\ pc = "T_WAIT"
    /\ \E eps \in EpsLists : job = NewTvJob(eps)

Init ==
    /\ qpos = 1
    /\ run = "running"
    /\ (InitMovies \/ InitTv)

Next ==
    \/ M_WaitForDisc \/ M_Poll \/ M_DiscDetected \/ M_Rip
    \/ M_VerifyOutputs \/ M_PlanRename \/ M_CommitMoves \/ M_Archive
    \/ M_Eject \/ M_Done \/ M_Error \/ M_Summary
    \/ T_WaitForDisc \/ T_Rip \/ T_Verify \/ T_Probe \/ T_Plan \/ T_Commit \/ T_Next

Spec == Init /\ [][Next]_vars

\* The program is sequential and never stops by itself: whenever it has a
\* next step it takes one.  Which outcome the environment gives to that step
\* is not constrained.
FairSpec == Spec /\ WF_vars(Next)

\* ------------------------------------------------ the functions on their own
\* One call of a function of the program: pipeline names the function, cfg
\* and job hold the arguments, and after the call job holds the result too.
Returned(j) ==
    /\ job' = j
    /\ pc' = "RETURNED"
    /\ UNCHANGED <<pipeline, cfg, qpos, run>>

\* What safe_move can find at src, dst and dst/basename(src) when called.
MoveInputs ==
    {fs \in [src : {Absent, Full}, dst : DirState, nested : {Absent, Full}] :
       fs.dst = Absent => fs.nested = Absent}

InitSafeMove ==
    /\ pipeline = "safe_move"
    /\ cfg \in [is_dir : BOOLEAN, retries : {Retries}]
    /\ \E fs \in MoveInputs : job = [before |-> fs, fs |-> fs, ret |-> ""]

\* safe_move(src, dst, retries)
F_SafeMove ==
    /\ pipeline = "safe_move" /\ pc = "CALL"
    /\ \E r \in safe_move(job.before, cfg.is_dir, cfg.retries) :
         Returned([job EXCEPT !.fs = r.fs, !.ret = r.ret])

\* safe_move step by step: one state per shutil.move attempt, per copy and
\* per delete attempt.  A call that breaks off inside shutil.move, copytree
\* or rmtree leaves the paths as that call's failure outcome shows them.
\*   attempt   the loop variable of the running "for attempt in range(retries)"
\*   moves, copies, deletes   the calls of shutil.move, of copytree / copy2
\*             and of rmtree / unlink made so far
\*   waits     the multiples of delay slept after the failed move attempts
InitMoveSteps ==
    /\ pipeline = "safe_move"
    /\ cfg \in [is_dir : BOOLEAN, retries : 1..Retries]
    /\ \E fs \in MoveInputs :
         job = [before |-> fs, fs |-> fs, ret |-> "", attempt |-> 0,
                moves |-> 0, copies |-> 0, deletes |-> 0, waits |-> <<>>]

\* A loop that never runs out of attempts.
loop_never_exhausted(attempt, retries) == FALSE

\* "for attempt in range(retries)" has no further value after this one.
loop_exhausted(attempt, retries) == attempt + 1 >= retries

\* time.sleep(delay * (attempt + 1)), in multiples of delay
sleep_multiple(attempt) == attempt + 1

\* One pass of the first loop: shutil.move; return, or sleep and go on.
S_MoveAttempt ==
    /\ pipeline = "safe_move" /\ pc = "MOVE"
    /\ \E r \in shutil_move(job.fs, cfg.is_dir) :
         LET j == [job EXCEPT !.fs = r.fs, !.moves = @ + 1]
         IN  IF r.ok THEN Returned([j EXCEPT !.ret = "ok"])
             ELSE LET j2 == [j EXCEPT !.waits = Append(@, sleep_multiple(job.attempt))]
                  IN  IF loop_exhausted(job.attempt, cfg.retries)
                        THEN Goto([j2 EXCEPT !.attempt = 0], "COPY")
                        ELSE Goto([j2 EXCEPT !.attempt = @ + 1], "MOVE")

\* The fallback's copytree / copy2: it raises, or completes.
S_Copy ==
    /\ pipeline = "safe_move" /\ pc = "COPY"
    /\ LET j == [job EXCEPT !.copies = @ + 1]
       IN  IF job.fs.src = Absent
             THEN Returned([j EXCEPT !.ret = "FileNotFoundError"])
           ELSE IF cfg.is_dir /\ job.fs.dst # Absent
             THEN Returned([j EXCEPT !.ret = "FileExistsError"])
           ELSE \/ \E d \in {job.fs.dst, Partial} :
                     Returned([j EXCEPT !.ret = "CopyError", !.fs.dst = d])
                \/ Goto([j EXCEPT !.fs.dst = job.fs.src], "DELETE")

\* One pass of the delete loop: rmtree / unlink; break, or sleep and go on.
S_DeleteAttempt ==
    /\ pipeline = "safe_move" /\ pc = "DELETE"
    /\ \E r \in delete_source(job.fs.src, cfg.is_dir) :
         LET j == [job EXCEPT !.fs.src = r.src, !.deletes = @ + 1]
         IN  IF r.ok \/ loop_exhausted(job.attempt, cfg.retries)
               THEN Goto([j EXCEPT !.attempt = 0], "CHECK")
               ELSE Goto([j EXCEPT !.attempt = @ + 1], "DELETE")

\* "if not dst.exists(): raise RuntimeError(...)"
S_Check ==
    /\ pipeline = "safe_move" /\ pc = "CHECK"
    /\ Returned([job EXCEPT !.ret = dst_exists_check(job.fs.dst)])

\* Acceptance windows in seconds: 20-26 minutes, and two windows inside it
\* that do not overlap, one ending at 23 minutes and one starting at 24.
MatchWindows ==
    {[min_s |-> 1200, max_s |-> 1560], [min_s |-> 1200, max_s |-> 1380],
     [min_s |-> 1440, max_s |-> 1560]}

\* duration_s of a candidate file: 2, 23, 24, 25 minutes, or None.
MatchDurs == {None, 120, 1380, 1440, 1500}

\* skip_penalty_minutes in 1/120 minute: 0.0 and 2.0.
SkipPenalties == {0, 240}

NoMapping == [ok |-> FALSE, pairs |-> <<>>, err_sum |-> INF]

InitMatch ==
    /\ pipeline = "dp_map_files_to_episodes"
    /\ cfg \in [skip_penalty : SkipPenalties]
    /\ \E eps_win \in SeqsUpTo(MatchWindows, MaxUnits), durs \in SeqsUpTo(MatchDurs, MaxCands) :
         job = [eps_win |-> eps_win, durs |-> durs, res |-> NoMapping]

\* dp_map_files_to_episodes(eps_win, files, skip_penalty_minutes)
F_Match ==
    /\ pipeline = "dp_map_files_to_episodes" /\ pc = "CALL"
    /\ Returned([job EXCEPT !.res = dp_map_files_to_episodes(job.eps_win, job.durs,
                                                             cfg.skip_penalty)])

\* One call compute_typical_runtime_seconds(files): the duration_s of the
\* files (None: not an int); the function reads no configuration.
TypicalDurs == {None, 300, 1320, 1321, 1500}

InitTypical ==
    /\ pipeline = "compute_typical_runtime_seconds"
    /\ cfg = <<>>
    /\ \E durations \in SeqsUpTo(TypicalDurs, MaxDurs) :
         job = [durations |-> durations, trim |-> None, durs |-> <<>>, typical_s |-> None]

F_Typical ==
    /\ pipeline = "compute_typical_runtime_seconds" /\ pc = "CALL"
    /\ Returned([job EXCEPT !.trim = typical_runtime_locals(job.durations).trim,
                            !.durs = typical_runtime_locals(job.durations).durs,
                            !.typical_s = compute_typical_runtime_seconds(job.durations)])

\* One call build_episode_windows(eps, typical_s, manifest_buf_min,
\* typical_buf_min, special_delta_min): episodes without declared runtimes,
\* with only one of them, with both, and with a declared minimum above the
\* maximum; typical durations of 30 s and of 22, 27 and 44 minutes.
WindowEpisodes == {Episode(None, None), Episode(None, 24), Episode(20, 24), Episode(50, 20)}
WindowTypicals == {30, 1320, 1620, 2640}

InitWindows ==
    /\ pipeline = "build_episode_windows"
    /\ cfg \in [manifest_buf_min : {0, match_manifest_buffer_minutes},
                typical_buf_min : {0, match_typical_buffer_minutes},
                special_delta_min : {0, special_runtime_delta_minutes}]
    /\ \E eps \in SeqsUpTo(WindowEpisodes, MaxEps), typical_s \in WindowTypicals :
         job = [eps |-> eps, typical_s |-> typical_s, out |-> <<>>]

F_Windows ==
    /\ pipeline = "build_episode_windows" /\ pc = "CALL"
    /\ Returned([job EXCEPT !.out = build_episode_windows(job.eps, job.typical_s,
                     cfg.manifest_buf_min, cfg.typical_buf_min, cfg.special_delta_min)])

\* One call pick_keeper_or_prompt(config, folder, min_main_seconds) with the
\* default tolerance and threshold: the files of the folder with their probed
\* duration in seconds (30, 90, 101, 148 and 149 minutes; 6062 s is shown
\* as 101.03 minutes by round(dur / 60.0, 2), and 6064 s is within tol of
\* 6062 s but not of 6060 s; 0: the probe raised) and their size.
KeeperDurs == {0, 1800, 5400, 6060, 6062, 6064, 8880, 8940}
KeeperSizes == {1, 2}

\* A folder with one file each of 30, 90, 148 and 149 minutes, in every
\* listing order and with every size.
FourCutFolders ==
    {f \in [1..4 -> [duration_sec : {1800, 5400, 8880, 8940}, size_bytes : KeeperSizes]] :
       \A a, b \in 1..4 : a # b => f[a].duration_sec # f[b].duration_sec}

InitKeeper ==
    /\ pipeline = "pick_keeper_or_prompt"
    /\ cfg = [min_main_seconds |-> min_main]
    /\ \E infos \in SeqsUpTo([duration_sec : KeeperDurs, size_bytes : KeeperSizes],
                              MaxKeeperFiles) \cup FourCutFolders :
         job = [infos |-> infos, prompted |-> FALSE, res |-> NoKeeper]

\* prompted: prompt_real_cut_choice was called; its answer is the user's.
F_Keeper ==
    /\ pipeline = "pick_keeper_or_prompt" /\ pc = "CALL"
    /\ \E choice \in PromptChoices(keeper_candidates(job.infos, cfg.min_main_seconds)) :
         Returned([job EXCEPT
            !.prompted = /\ keeper_candidates(job.infos, cfg.min_main_seconds) # <<>>
                         /\ multi_cut_ambiguous(job.infos,
                                keeper_clusters(job.infos, cfg.min_main_seconds)),
            !.res = pick_keeper_or_prompt(job.infos, cfg.min_main_seconds, choice)])

\* One call run_unified_queue() of discmapper_unified_v03.py.
\*   healthy   health_check() finds no problem
\*   exists    movies_queue, tv_queue and tv_index are on disk
\*   ran       the child processes run so far, in order
\*   ret       the value returned; raised: the exception that left the call
ExitCodes == {0, 1, 2}
NoExit == -1

InitUnified ==
    /\ pipeline = "run_unified_queue"
    /\ cfg = <<>>
    /\ \E healthy \in BOOLEAN,
          exists \in [{"movies_queue", "tv_queue", "tv_index"} -> BOOLEAN] :
         job = [healthy |-> healthy, exists |-> exists, ran |-> <<>>,
                rc_movies |-> NoExit, rc_tv |-> NoExit, ret |-> NoExit, raised |-> ""]

UnifiedStep(j, next) ==
    /\ job' = j
    /\ pc' = next
    /\ UNCHANGED <<pipeline, cfg, qpos, run>>

\* health_check() and the three exists() tests.
U_Checks ==
    /\ pipeline = "run_unified_queue" /\ pc = "CALL"
    /\ IF ~job.healthy THEN UnifiedStep([job EXCEPT !.raised = "RuntimeError"], "RAISED")
       ELSE IF \E f \in DOMAIN job.exists : ~job.exists[f]
         THEN UnifiedStep([job EXCEPT !.raised = "FileNotFoundError"], "RAISED")
       ELSE UnifiedStep(job, "RUN_MOVIES")

\* rc_movies = run_cmd([py, discmapper_v02.py, ..., "rip", ...])
U_RunMovies ==
    /\ pipeline = "run_unified_queue" /\ pc = "RUN_MOVIES"
    /\ \E rc \in ExitCodes :
         UnifiedStep([job EXCEPT !.ran = Append(@, "movies"), !.rc_movies = rc], "RUN_TV")

\* A result that is always the TV exit code.
tv_exit_code(rc_movies, rc_tv) == rc_tv

\* if rc_movies != 0: return rc_movies; return rc_tv
unified_exit_code(rc_movies, rc_tv) == IF rc_movies # 0 THEN rc_movies ELSE rc_tv

\* rc_tv = run_cmd([py, discmapper_tv_v02.py, "rip-queue", ...]) and the return.
U_RunTv ==
    /\ pipeline = "run_unified_queue" /\ pc = "RUN_TV"
    /\ \E rc \in ExitCodes :
         Returned([job EXCEPT !.ran = Append(@, "tv"), !.rc_tv = rc,
                              !.ret = unified_exit_code(job.rc_movies, rc)])

FnInit ==
    /\ qpos = 1
    /\ run = "running"
    /\ pc = "CALL"
    /\ (InitSafeMove \/ InitTypical \/ InitWindows \/ InitUnified)

FnNext ==
    \/ F_SafeMove
    \/ F_Typical
    \/ F_Windows
    \/ U_Checks
    \/ U_RunMovies
    \/ U_RunTv

FnSpec == FnInit /\ [][FnNext]_vars

\* safe_move step by step.
MoveInit ==
    /\ qpos = 1
    /\ run = "running"
    /\ pc = "MOVE"
    /\ InitMoveSteps

MoveNext == S_MoveAttempt \/ S_Copy \/ S_DeleteAttempt \/ S_Check

MoveSpec == MoveInit /\ [][MoveNext]_vars

\* Every call safe_move makes returns or raises, and the interpreter goes
\* on to the next statement.
FairMoveSpec == MoveSpec /\ WF_vars(MoveNext)

\* ------------------------------------------------- names in the Ready area
\* The commit steps of both pipelines over the items of one run, with the
\* files of the Ready area by name.
\*   ready   what each name of the Ready area holds: 0 nothing, EarlierFile a
\*           file that was there before the run, n > 0 the n-th deliverable
\*           of the run
\*   dest    plan["dest"] of the movie job
\*   dests   for the k-th pair of the TV job, the file name tv_dest_paths
\*           builds from the unit's series, SxxEyy, title and index
\*   now     the second the clock shows (now_stamp has a resolution of 1 s)
\*   fatal   the exception that left cmd_rip_queue ("": none)
\* The largest second the clock reaches in one run.
MaxClock == 3

EarlierFile == QueueLen * MaxEps + 1

\* dest_dir / file_name (0) and dest_dir / "stem (n).mkv" (n >= 1)
MovieNames == 0..(QueueLen + 1)

\* Names tv_dest_paths can build for the units of the run, and for each the
\* name itself (stamp 0) and its "__dup_<stamp>" names.
DestFiles == {1, 2}
TvNames == DestFiles \X (0..MaxClock)

InitReadyMovies ==
    /\ pipeline = "ready_movies" /\ pc = "R_PLAN"
    /\ cfg \in [copy_mode : BOOLEAN]
    /\ \E ready \in [MovieNames -> {0, EarlierFile}] :
         /\ Cardinality({n \in MovieNames : ready[n] = 0}) >= QueueLen
         /\ job = [ready |-> ready, dest |-> 0]

InitReadyTv ==
    /\ pipeline = "ready_tv" /\ pc = "R_MOVE"
    /\ cfg = <<>>
    /\ \E ready \in [TvNames -> {0, EarlierFile}], dests \in SeqsUpTo(DestFiles, MaxEps) :
         /\ \A n \in TvNames : n[2] # 0 => ready[n] = 0
         /\ dests # <<>>
         /\ job = [ready |-> ready, dests |-> dests, moved |-> 0, now |-> 0, fatal |-> ""]

\* build_finish_plan: dest, or the first "stem (n).mkv" that does not exist.
numbered_dest(ready) ==
    IF ready[0] = 0 THEN 0
    ELSE CHOOSE n \in MovieNames \ {0} :
           ready[n] = 0 /\ \A l \in 1..(n - 1) : ready[l] # 0

\* PLAN_RENAME: plan = build_finish_plan(...)
R_Plan ==
    /\ pipeline = "ready_movies" /\ pc = "R_PLAN"
    /\ Goto([job EXCEPT !.dest = numbered_dest(job.ready)], "R_COMMIT")

\* One transfer of a file to a name of the Ready area: what the name holds
\* afterwards.  shutil.copy2, or safe_move of a file, replaces what is there.
transfer_to(ready, name, id, copy_mode) ==
    IF copy_mode
      THEN {ready, [ready EXCEPT ![name] = id]}
      ELSE {IF r.ret = "ok" \/ r.fs.dst = Partial THEN [ready EXCEPT ![name] = id] ELSE ready :
              r \in safe_move(MoveFs(Full, IF ready[name] = 0 THEN Absent ELSE Full),
                              FALSE, Retries)}

\* COMMIT_MOVES: copy2 / safe_move of the keeper to plan["dest"]; then the
\* loop goes on with the next item, whether the job has failed or not.
R_Commit ==
    /\ pipeline = "ready_movies" /\ pc = "R_COMMIT"
    /\ \E ready \in transfer_to(job.ready, job.dest, qpos, cfg.copy_mode) :
         job' = [job EXCEPT !.ready = ready]
    /\ IF qpos < QueueLen
         THEN qpos' = qpos + 1 /\ pc' = "R_PLAN" /\ run' = run
         ELSE qpos' = qpos /\ pc' = "END" /\ run' = "completed"
    /\ UNCHANGED <<pipeline, cfg>>

\* final = dest_file, or dest_file's "__dup_<now_stamp()>" name when
\* dest_file exists
dup_name(ready, dest_file, now) ==
    IF ready[<<dest_file, 0>>] # 0 THEN <<dest_file, now>> ELSE <<dest_file, 0>>

\* One pass of the move loop: the clock has gone on by less than a second
\* or by more since the pass before.
R_TvMove ==
    /\ pipeline = "ready_tv" /\ pc = "R_MOVE"
    /\ job.moved < Len(job.dests)
    /\ \E now \in {job.now, job.now + 1} \ {0} :
         /\ now <= MaxClock
         /\ LET final == dup_name(job.ready, job.dests[job.moved + 1], now)
                id == (qpos - 1) * MaxEps + job.moved + 1
            IN  \E r \in safe_move(MoveFs(Full, IF job.ready[final] = 0 THEN Absent ELSE Full),
                                   FALSE, Retries) :
                  LET j == [job EXCEPT !.now = now,
                                       !.ready[final] = IF r.ret = "ok" \/ r.fs.dst = Partial
                                                          THEN id ELSE @]
                  IN  IF r.ret = "ok" THEN Goto([j EXCEPT !.moved = @ + 1], "R_MOVE")
                      ELSE Uncaught(j, r.ret)

\* The pairs of the job are done: the for loop takes the next key.
R_TvNext ==
    /\ pipeline = "ready_tv" /\ pc = "R_MOVE"
    /\ job.moved = Len(job.dests)
    /\ IF qpos < QueueLen
         THEN /\ qpos' = qpos + 1 /\ pc' = "R_MOVE" /\ run' = run
              /\ \E dests \in SeqsUpTo(DestFiles, MaxEps) :
                   dests # <<>> /\ job' = [job EXCEPT !.dests = dests, !.moved = 0]
         ELSE qpos' = qpos /\ pc' = "END" /\ run' = "completed" /\ job' = job
    /\ UNCHANGED <<pipeline, cfg>>

ReadyInit ==
    /\ qpos = 1
    /\ run = "running"
    /\ (InitReadyMovies \/ InitReadyTv)

ReadyNext == R_Plan \/ R_Commit \/ R_TvMove \/ R_TvNext

ReadySpec == ReadyInit /\ [][ReadyNext]_vars

\* The matcher on its own.
MatchInit ==
    /\ qpos = 1
    /\ run = "running"
    /\ pc = "CALL"
    /\ InitMatch

MatchNext == F_Match

MatchSpec == MatchInit /\ [][MatchNext]_vars

\* The keeper selection on its own.
KeeperInit ==
    /\ qpos = 1
    /\ run = "running"
    /\ pc = "CALL"
    /\ InitKeeper

KeeperNext == F_Keeper

KeeperSpec == KeeperInit /\ [][KeeperNext]_vars

\* ------------------------------------------------------ reading a job's end
InOrder(j, state) == \E k \in 1..Len(j.state_order) : j.state_order[k] = state

\* The state a movie job was in when the except handler took over.
FailedIn(j) ==
    LET k == CHOOSE i \in 1..Len(j.state_order) : j.state_order[i] = ERROR
    IN  IF k = 1 THEN "" ELSE j.state_order[k - 1]

\* The movie job's loop body has run to its end without the handler.
MovieJobSucceeded == pipeline = "movies" /\ pc = "SUMMARY" /\ ~job.errored

\* The movie job's disc wait ran past max_wait_s.
MovieJobTimedOut ==
    pipeline = "movies" /\ job.errored /\ FailedIn(job) = WAIT_FOR_DISC

\* Where the job folder was relocated to, if anywhere.
QuarantineArea(j) ==
    IF j.dirs.unable # Absent THEN "unable"
    ELSE IF j.dirs.review # Absent THEN "review"
    ELSE "none"

\* Failure causes of kind unreadable disc / no output / zero-byte output.
UnableCauses ==
    {"disc_structure_check_failed", "makemkv_error_rc", "no_mkvs_produced",
     "mkv_zero_byte_file_detected"}

\* Failure causes of kind uncertain classification, as cmd_rip_queue names them.
ReviewCauses ==
    {"ffprobe_failed", "not_enough_files", "no_typical_runtime", "mapping_uncertain"}

\* The exceptions copy2 / safe_move end in.
TransferErrors == {"FileNotFoundError", "FileExistsError", "CopyError", "RuntimeError"}

\* The rip of the job wrote no file, or wrote a file of zero bytes.
BadOutputs(j) == Len(j.mkvs) = 0 \/ \E k \in 1..Len(j.mkvs) : j.mkvs[k] = 0

\* The job has ended in failure: the except handler of cmd_rip has run, or
\* cmd_rip_queue has sent the job folder to Unable_to_Read or Review.
JobFailed ==
    IF pipeline = "movies" THEN job.errored /\ pc \in {"SUMMARY", "END"}
    ELSE job.outcome \in {"unable", "review"}

SevenStates ==
    <<WAIT_FOR_DISC, DISC_DETECTED, RIP, VERIFY_OUTPUTS, PLAN_RENAME, COMMIT_MOVES, DONE>>

EightStates ==
    <<WAIT_FOR_DISC, DISC_DETECTED, RIP, VERIFY_OUTPUTS, PLAN_RENAME, COMMIT_MOVES,
      EJECT, DONE>>

\* ------------------------------------------------------------------ claims
\* C1: a movie job that completes without a failure entered exactly
\* WAIT_FOR_DISC, DISC_DETECTED, RIP, VERIFY_OUTPUTS, PLAN_RENAME,
\* COMMIT_MOVES, optionally EJECT, then DONE, each once and in that order;
\* EJECT is there only when eject is enabled, eject_on_success holds and a
\* drive letter is known, and with eject disabled the order is the seven
\* states without EJECT.
C1_StateOrder ==
    MovieJobSucceeded =>
       /\ job.state_order \in {SevenStates, EightStates}
       /\ InOrder(job, EJECT) =>
             cfg.eject_enabled /\ cfg.eject_on_success /\ cfg.drive_letter
       /\ ~cfg.eject_enabled => job.state_order = SevenStates

\* A job that succeeded and went through EJECT.
C1_Witness ==
    MovieJobSucceeded /\ job.state_order = EightStates /\ job.ejected

\* C2: a job's failure (other than a disc-wait timeout) never aborts the
\* run, in either pipeline: the run does not end while items of the queue
\* are still to be processed.
C2_FailureNeverAbortsRun ==
    (run = "aborted" /\ qpos < QueueLen) => MovieJobTimedOut

\* C3: after a disc-wait timeout no later job of the queue is started.
C3_TimeoutAbortsRun ==
    [][MovieJobTimedOut => qpos' = qpos]_vars

\* C4: the quarantine area follows the failure cause: unreadable disc, no
\* output and zero-byte output go to Unable-to-Read, uncertain
\* classification goes to Review.
C4_QuarantineByCause ==
    /\ (pipeline = "movies" /\ job.errored /\ QuarantineArea(job) # "none") =>
          /\ FailedIn(job) = PLAN_RENAME => QuarantineArea(job) = "review"
          /\ job.error \in UnableCauses => QuarantineArea(job) = "unable"
    /\ (pipeline = "tv" /\ QuarantineArea(job) # "none") =>
          /\ job.cause \in ReviewCauses => QuarantineArea(job) = "review"
          /\ job.cause \in UnableCauses => QuarantineArea(job) = "unable"

\* C5: when COMMIT_MOVES succeeded and eject_drive then raises, the job
\* still reaches DONE, keeps its success receipt and is not quarantined.
C5_EjectBestEffort ==
    (/\ pipeline = "movies" /\ pc \in {"SUMMARY", "END"}
     /\ COMMIT_MOVES \in job.exited /\ job.error = "EjectError") =>
       /\ InOrder(job, DONE)
       /\ job.receipt.status = "success"
       /\ QuarantineArea(job) = "none"

\* C6: a non-zero exit code of the ripper fails the job only when no output
\* file was produced; with at least one file the job goes on to the
\* verification of outputs, in both pipelines.
C6_NonZeroExitWithOutput ==
    /\ pipeline = "movies" =>
          (job.error = "makemkv_error_rc" => Len(job.mkvs) = 0)
    /\ pipeline = "tv" =>
          ((job.rc # 0 /\ Len(job.mkvs) > 0) => job.cause # "no_mkvs_produced")

\* C7: a job whose rip produced no file or a zero-byte file fails at the
\* verification, is quarantined in Unable-to-Read and never reaches
\* classification or commit, in either pipeline.
C7_BadOutputsToUnable ==
    /\ (pipeline = "movies" /\ InOrder(job, VERIFY_OUTPUTS) /\ BadOutputs(job)) =>
          /\ ~InOrder(job, PLAN_RENAME) /\ ~InOrder(job, COMMIT_MOVES)
          /\ (pc = "SUMMARY" /\ ~cfg.dry_run) => QuarantineArea(job) = "unable"
    /\ (pipeline = "tv" /\ pc = "T_NEXT" /\ job.outcome # "skipped" /\ BadOutputs(job)) =>
          job.outcome = "unable" /\ ~job.probed

\* The commit verification of C8, where enabled says whether it applies.
CommitVerified(enabled) ==
    (pipeline = "movies" /\ enabled) =>
       /\ job.receipt.status = "success" => job.ready_dest = "ok"
       /\ (/\ InOrder(job, COMMIT_MOVES) /\ job.ready_dest # "ok"
           /\ job.error \notin TransferErrors) =>
             job.error = "commit_verification_failed" /\ job.receipt.status # "success"

\* C8 (as the code has it): when policy.safe_commit is on, a success receipt
\* is written only if the deliverable is at its destination with non-zero
\* size; a destination that is missing or empty after the move or copy
\* sends the job to Error with cause commit_verification_failed and leaves
\* no success receipt.
C8_VerifiedWhenSafeCommit == CommitVerified(cfg.safe_commit)

\* A job under safe_commit whose move returned, whose destination was found
\* empty, and which the handler then marked unable.
C8_Witness ==
    /\ pipeline = "movies" /\ cfg.safe_commit /\ pc = "SUMMARY"
    /\ job.ready_dest = "empty" /\ job.error = "commit_verification_failed"
    /\ job.receipt.status = "unable"

\* C8 (as stated): the same for every configuration.
C8_VerifiedAlways == CommitVerified(TRUE)

\* C9: every job that ends in failure leaves a failure receipt with a
\* reason, in both pipelines.
C9_FailureReceipt ==
    JobFailed => job.receipt.status = "unable" /\ job.receipt.reason # ""

\* C10: a job whose rip returned a non-zero exit code and wrote no file
\* fails with cause no-output-produced, and once it is relocated its folder
\* is in Unable-to-Read and no longer under the raw root.
C10_NoOutputRelocatedOnce ==
    /\ (pipeline = "movies" /\ pc = "SUMMARY" /\ job.errored
        /\ job.rc # 0 /\ Len(job.mkvs) = 0) =>
          /\ job.receipt.reason = "no_mkvs_produced"
          /\ job.dirs.unable # Absent /\ job.dirs.raw = Absent
    /\ (pipeline = "tv" /\ pc = "T_NEXT" /\ job.outcome = "unable"
        /\ job.rc # 0 /\ Len(job.mkvs) = 0) =>
          /\ job.cause = "no_mkvs_produced"
          /\ job.dirs.unable # Absent /\ job.dirs.raw = Absent

\* The program is in a disc-wait loop.
InWait == pc \in {"POLL", "T_WAIT"}

\* C11: the wait for media always ends, in both pipelines: media is present
\* or the hard timeout elapsed.
C11_WaitEnds == [](InWait => <>(~InWait))

\* C12: called with src there and dst not, safe_move raises only if dst does
\* not exist after the fallback: whenever dst exists in the end (made by the
\* fallback or left by an earlier move attempt) it returns normally, and
\* whenever it returns normally dst exists.
C12_RaisesOnlyWithoutDst ==
    (/\ pipeline = "safe_move" /\ pc = "RETURNED"
     /\ job.before.src = Full /\ job.before.dst = Absent) =>
       (job.ret = "ok" <=> job.fs.dst # Absent)

\* -------------------------------------------------- reading a matcher call
MatcherReturned == pipeline = "dp_map_files_to_episodes" /\ pc = "RETURNED"

\* File duration d is present and inside window e.
InWindow(e, d) == d # None /\ e.min_s <= d /\ d <= e.max_s

\* |d - midpoint of e| in 1/120 minute.
Deviation(e, d) == Abs(2 * d - (e.min_s + e.max_s))

\* The k-th smallest member of a set of numbers.
Nth(S, k) == CHOOSE x \in S : Cardinality({y \in S : y < x}) = k - 1

\* The order-preserving assignments of m units to distinct files out of n:
\* each is the set of files it uses, unit i getting the i-th of them.
Assignments(m, n) == {S \in SUBSET (1..n) : Cardinality(S) = m}

\* Those that put every unit on a file inside its window.
FeasibleAssignments(eps_win, durs) ==
    {S \in Assignments(Len(eps_win), Len(durs)) :
       \A i \in 1..Len(eps_win) : InWindow(eps_win[i], durs[Nth(S, i)])}

\* Match costs of the matched pairs plus the penalty of every file left out.
AssignmentCost(eps_win, durs, skip_penalty, S) ==
    SeqSum([i \in 1..Len(eps_win) |-> Deviation(eps_win[i], durs[Nth(S, i)])])
    + skip_penalty * (Len(durs) - Len(eps_win))

\* The files a returned list of pairs uses (1-based).
FilesOf(pairs) == {pairs[k][2] + 1 : k \in 1..Len(pairs)}

\* C13: the matcher returns an assignment exactly when an order-preserving
\* assignment of every unit to a distinct in-window file exists, and the one
\* it returns is such an assignment of minimum total cost.
C13_OptimalAndComplete ==
    MatcherReturned =>
       LET feasible == FeasibleAssignments(job.eps_win, job.durs)
           Cost(S) == AssignmentCost(job.eps_win, job.durs, cfg.skip_penalty, S)
       IN  /\ job.res.ok <=> feasible # {}
           /\ job.res.ok =>
                 /\ FilesOf(job.res.pairs) \in feasible
                 /\ \A S \in feasible : Cost(FilesOf(job.res.pairs)) <= Cost(S)

\* A call with several feasible assignments of different cost, one file skipped.
C13_Witness ==
    /\ MatcherReturned /\ job.res.ok
    /\ Len(job.eps_win) = 2 /\ Len(job.durs) = 3
    /\ LET feasible == FeasibleAssignments(job.eps_win, job.durs)
       IN  \E S \in feasible, R \in feasible :
              AssignmentCost(job.eps_win, job.durs, cfg.skip_penalty, S)
              < AssignmentCost(job.eps_win, job.durs, cfg.skip_penalty, R)

\* C14: the result is infeasible (no pairs, infinite error) or has exactly
\* one pair for each unit 0..m-1; never a partial assignment.
C14_CoversEveryUnit ==
    MatcherReturned =>
       IF job.res.ok
         THEN /\ Len(job.res.pairs) = Len(job.eps_win)
              /\ \A i \in 1..Len(job.eps_win) :
                    Cardinality({k \in 1..Len(job.res.pairs) : job.res.pairs[k][1] = i - 1}) = 1
         ELSE job.res.pairs = <<>> /\ job.res.err_sum = INF

\* A full assignment of three units with one of four files skipped.
C14_Witness ==
    /\ MatcherReturned /\ job.res.ok
    /\ Len(job.eps_win) = 3 /\ Len(job.durs) = 4

\* C15: returned pairs are injective and strictly order-preserving.
C15_OrderPreserving ==
    MatcherReturned =>
       \A k, l \in 1..Len(job.res.pairs) :
          /\ job.res.pairs[k][1] < job.res.pairs[l][1] =>
                job.res.pairs[k][2] < job.res.pairs[l][2]
          /\ k # l => job.res.pairs[k][2] # job.res.pairs[l][2]

\* An assignment of two units in which the later file is the closer match
\* of both.
C15_Witness ==
    /\ MatcherReturned /\ job.res.ok
    /\ job.eps_win = <<[min_s |-> 1200, max_s |-> 1560], [min_s |-> 1200, max_s |-> 1560]>>
    /\ job.durs = <<1500, 1380>>

\* The files whose duration is present and inside the window of some unit.
InWindowFiles(eps_win, durs) ==
    {j \in 1..Len(durs) : \E i \in 1..Len(eps_win) : InWindow(eps_win[i], durs[j])}

\* C16: with fewer in-window files than units the matcher reports
\* infeasible.
C16_TooFewInWindow ==
    MatcherReturned =>
       (Cardinality(InWindowFiles(job.eps_win, job.durs)) < Len(job.eps_win) => ~job.res.ok)

\* Two units, three files, only one of them inside a window.
C16_Witness ==
    /\ MatcherReturned /\ ~job.res.ok
    /\ Len(job.eps_win) = 2 /\ Len(job.durs) = 3
    /\ Cardinality(InWindowFiles(job.eps_win, job.durs)) = 1

\* The case of C17: at least one unit, windows that do not overlap, and
\* exactly as many in-window files as units, the i-th of them in window i.
DistinctWindowsInOrder(eps_win, durs) ==
    LET m == Len(eps_win)
        files == InWindowFiles(eps_win, durs)
    IN  /\ m >= 1
        /\ \A i, k \in 1..m :
              i # k => (eps_win[i].max_s < eps_win[k].min_s \/ eps_win[k].max_s < eps_win[i].min_s)
        /\ Cardinality(files) = m
        /\ \A i \in 1..m : InWindow(eps_win[i], durs[Nth(files, i)])

\* Unit i - 1 on the i-th in-window file, as the pairs the program returns.
PairsInOrder(eps_win, durs) ==
    [i \in 1..Len(eps_win) |-> <<i - 1, Nth(InWindowFiles(eps_win, durs), i) - 1>>]

\* Sum over the units of |duration - window midpoint| of the in-order files.
DeviationSum(eps_win, durs) ==
    SeqSum([i \in 1..Len(eps_win) |->
              Deviation(eps_win[i], durs[Nth(InWindowFiles(eps_win, durs), i)])])

\* The assignment part of C17: the matcher returns the only feasible
\* assignment, which covers all units.
UniqueAssignmentReturned ==
    /\ job.res.ok
    /\ job.res.pairs = PairsInOrder(job.eps_win, job.durs)
    /\ FeasibleAssignments(job.eps_win, job.durs) = {InWindowFiles(job.eps_win, job.durs)}

\* C17 (as the code has it): in that case the matcher returns the unique
\* assignment covering all units, and the reported mean error is the sum of
\* the per-unit deviations from the window midpoints divided by the number
\* of units (mean * m = sum).
C17_MeanIsSumOverUnits ==
    (MatcherReturned /\ DistinctWindowsInOrder(job.eps_win, job.durs)) =>
       /\ UniqueAssignmentReturned
       /\ job.res.err_sum = DeviationSum(job.eps_win, job.durs)

\* Two units with windows that do not overlap, one file in each, a file
\* skipped, and a deviation that is not 0.
C17_Witness ==
    /\ MatcherReturned /\ DistinctWindowsInOrder(job.eps_win, job.durs)
    /\ Len(job.eps_win) = 2 /\ Len(job.durs) = 3
    /\ job.res.err_sum > 0

\* C17 (as stated): the reported mean error equals the sum itself
\* (mean = sum, that is err_sum = m * sum).
C17_MeanIsSum ==
    (MatcherReturned /\ DistinctWindowsInOrder(job.eps_win, job.durs)) =>
       /\ UniqueAssignmentReturned
       /\ job.res.err_sum = Len(job.eps_win) * DeviationSum(job.eps_win, job.durs)

\* The call of C18: three windows of 20-26 minutes, files of 2, 23, 24 and
\* 25 minutes, skip penalty 2.0 minutes.
EndToEndCall ==
    /\ MatcherReturned
    /\ job.eps_win = [i \in 1..3 |-> [min_s |-> 1200, max_s |-> 1560]]
    /\ job.durs = <<120, 1380, 1440, 1500>>
    /\ cfg.skip_penalty = 240

\* The 2-minute file skipped, the others on episodes 1, 2, 3 in order.
EndToEndAssignment ==
    job.res.ok /\ job.res.pairs = <<<<0, 1>>, <<1, 2>>, <<2, 3>>>>

\* C18 (as the code has it): in the end-to-end case the matcher skips the
\* 2-minute file and assigns the 23-, 24- and 25-minute files in order; the
\* reported mean error is 1.0 minute (errors 0, 1 and 2 minutes from the
\* 23-minute midpoint; 360 = 3 * 1.0 * 120).
C18_EndToEnd ==
    EndToEndCall => (EndToEndAssignment /\ job.res.err_sum = 360)

C18_Witness == EndToEndCall /\ job.res.ok

\* C18 (as stated): the same assignment with a mean error of about 0 (here:
\* at most a tenth of a minute).
C18_EndToEndNoError ==
    EndToEndCall =>
       (EndToEndAssignment /\ 10 * job.res.err_sum <= 120 * Len(job.res.pairs))

\* The TV job is past its mapping decision.
TvJobPlanned ==
    /\ pipeline = "tv" /\ job.probed
    /\ pc \in {"T_COMMIT", "T_NEXT", "END"}

\* The assignment is infeasible or its mean error (err_sum over the number
\* of pairs) is above max_avg_error_minutes_for_auto.
AssignmentRejected ==
    LET res == planned_mapping(job.eps, job.files)
    IN  ~res.ok \/ res.err_sum > max_avg_error_for_auto * Len(res.pairs)

\* C19: a TV job reaches the commit, moves files to Ready or ends done
\* only when the matcher's assignment covers every episode with a mean error
\* not above the ceiling; when the assignment is infeasible or above the
\* ceiling no file is moved to Ready, the done area stays empty, and once
\* the relocation returned the job folder is in the Review area.
C19_AutoCommitGate ==
    TvJobPlanned =>
       /\ (pc = "T_COMMIT" \/ job.moved > 0 \/ job.outcome = "done") =>
             /\ ~AssignmentRejected
             /\ Len(job.pairs) = Len(job.eps)
             /\ job.pairs = planned_mapping(job.eps, job.files).pairs
       /\ AssignmentRejected =>
             /\ job.moved = 0 /\ job.dirs.done = Absent /\ job.pairs = <<>>
             /\ pc = "T_NEXT" => (job.outcome = "review" /\ job.dirs.review # Absent)

\* A feasible assignment with a mean error above the ceiling went to Review.
C19_Witness ==
    /\ TvJobPlanned /\ pc = "T_NEXT" /\ job.cause = "mapping_uncertain"
    /\ planned_mapping(job.eps, job.files).ok /\ AssignmentRejected
    /\ job.outcome = "review" /\ job.moved = 0

\* compute_typical_runtime_seconds returned.
TypicalReturned == pipeline = "compute_typical_runtime_seconds" /\ pc = "RETURNED"

\* The measured durations of the call, sorted.
Measured == SortAsc(SelectSeq(job.durations, LAMBDA d : d # None))

\* The sorted input without its trim_count lowest and highest values.
TrimmedCore ==
    SubSeq(Measured, trim_count(Len(Measured)) + 1, Len(Measured) - trim_count(Len(Measured)))

\* Twice the median of the trimmed core: the middle value counted twice, or
\* the sum of the two middle values.
TwiceCoreMedian ==
    TrimmedCore[(Len(TrimmedCore) + 1) \div 2] + TrimmedCore[Len(TrimmedCore) \div 2 + 1]

\* The result is not below the smallest and not above the largest input.
WithinInputRange ==
    Measured[1] <= job.typical_s /\ job.typical_s <= Measured[Len(Measured)]

\* C20 (as the code has it): for at least 5 measured durations the result
\* lies between the minimum and maximum of the input and is the median of
\* the sorted input without its lowest and highest ~20%, truncated to whole
\* seconds.
C20_TruncatedTrimmedMedian ==
    (TypicalReturned /\ Len(Measured) >= 5) =>
       /\ WithinInputRange
       /\ 2 * job.typical_s <= TwiceCoreMedian
       /\ TwiceCoreMedian < 2 * job.typical_s + 2

\* Six durations whose trimmed core has the median 1320.5.
C20_Witness ==
    /\ TypicalReturned /\ Len(Measured) = 6
    /\ TwiceCoreMedian = 1320 + 1321
    /\ job.typical_s = 1320

\* C20 (as stated): the result equals that median.
C20_TrimmedMedian ==
    (TypicalReturned /\ Len(Measured) >= 5) =>
       /\ WithinInputRange
       /\ 2 * job.typical_s = TwiceCoreMedian

\* build_episode_windows returned.
WindowsReturned == pipeline = "build_episode_windows" /\ pc = "RETURNED"

\* C21: every window build_episode_windows produces has min_s >= 60 and
\* min_s <= max_s, whatever the typical duration, the declared minutes and
\* the buffers are.
C21_WindowsWellFormed ==
    WindowsReturned =>
       \A k \in 1..Len(job.out) : job.out[k].min_s >= 60 /\ job.out[k].min_s <= job.out[k].max_s

\* pick_keeper_or_prompt returned.
KeeperReturned == pipeline = "pick_keeper_or_prompt" /\ pc = "RETURNED"

\* The clusters of the call, as sequences of file numbers.
Clusters == keeper_clusters(job.infos, cfg.min_main_seconds)

\* The file of the folder with duration d.
FileOf(d) == CHOOSE k \in 1..Len(job.infos) : job.infos[k].duration_sec = d

\* The case of C22: four files of 148, 149, 90 and 30 minutes, in any order.
FourCuts ==
    /\ KeeperReturned /\ Len(job.infos) = 4
    /\ {job.infos[k].duration_sec : k \in 1..4} = {8880, 8940, 5400, 1800}

\* The 30-minute file is in no cluster and the 90-minute file is a cluster
\* of its own.
ShortDiscardedAndCutIsolated ==
    /\ \A c \in 1..Len(Clusters) : \A k \in 1..Len(Clusters[c]) : Clusters[c][k] # FileOf(1800)
    /\ \E c \in 1..Len(Clusters) : Clusters[c] = <<FileOf(5400)>>

\* C22 (as the code has it): in that case the 30-minute file is discarded
\* and the 90-minute file is isolated in its own cluster; the 149- and
\* 148-minute files are 60 s apart, above the tolerance, so they are the
\* top two clusters, and their gap is within the threshold: the prompt is
\* not shown and the 149-minute file is auto-selected.
C22_FourCutsAutoSelected ==
    FourCuts =>
       /\ ShortDiscardedAndCutIsolated
       /\ ~job.prompted
       /\ job.res = KeeperResult("success", "auto_selected_best_candidate", FileOf(8940))

C22_Witness == FourCuts /\ job.res.status = "success" /\ Len(Clusters) = 3

\* C22 (as stated): the selection is ambiguous and goes to the
\* disambiguation prompt instead of an auto-selection.
C22_FourCutsAmbiguous ==
    FourCuts =>
       /\ ShortDiscardedAndCutIsolated
       /\ job.prompted
       /\ job.res.reason # "auto_selected_best_candidate"

\* The selection is not ambiguous: one cluster, or the representative
\* (first) durations of the top two clusters differ by at most multi_cut.
NotAmbiguous ==
    \/ Len(Clusters) = 1
    \/ /\ Len(Clusters) > 1
       /\ Abs(job.infos[Clusters[1][1]].duration_sec
              - job.infos[Clusters[2][1]].duration_sec) <= multi_cut

\* The files at least min_main_seconds long, and the longest of their durations.
LongEnough == {k \in 1..Len(job.infos) : job.infos[k].duration_sec >= cfg.min_main_seconds}
LongestDuration ==
    CHOOSE d \in {job.infos[k].duration_sec : k \in LongEnough} :
       \A k \in LongEnough : job.infos[k].duration_sec <= d

\* The top cluster: the candidates within tol of the longest one.
TopCluster == {k \in LongEnough : LongestDuration - job.infos[k].duration_sec <= tol}

\* C23: when the selection is not ambiguous the keeper is auto-selected and
\* is a file of maximum size within the top cluster; two files of 101.0 and
\* 101.03 minutes are one cluster and the larger of them is the keeper.
C23_AutoSelectsLargestOfTopCluster ==
    (KeeperReturned /\ LongEnough # {} /\ NotAmbiguous) =>
       /\ ~job.prompted
       /\ job.res.status = "success" /\ job.res.reason = "auto_selected_best_candidate"
       /\ job.res.keeper_path \in TopCluster
       /\ \A k \in TopCluster :
             job.infos[k].size_bytes <= job.infos[job.res.keeper_path].size_bytes
       /\ {job.infos[k].duration_sec : k \in 1..Len(job.infos)} = {6060, 6062} =>
             Len(Clusters) = 1

\* 101.03 minutes with the smaller size listed first, 101.0 minutes with the
\* larger size second: the second file is the keeper.
C23_Witness ==
    /\ KeeperReturned
    /\ job.infos = <<[duration_sec |-> 6062, size_bytes |-> 1],
                     [duration_sec |-> 6060, size_bytes |-> 2]>>
    /\ job.res.keeper_path = 2

\* The candidates of the job's keeper selection are sorted longest first, so
\* the second cluster starts at the first candidate more than tol below the
\* first one: the gap between the two, 0 when there is one cluster.
TopTwoGap ==
    LET C == job.candidates
        below == {k \in 2..Len(C) : C[1].duration_sec - C[k].duration_sec > tol}
    IN  IF below = {} THEN 0
        ELSE C[1].duration_sec - C[CHOOSE k \in below : \A l \in below : k <= l].duration_sec

\* Two or more clusters whose top two are more than multi_cut apart.
AmbiguousCut == pipeline = "movies" /\ job.candidates # <<>> /\ TopTwoGap > multi_cut

ProbeFailed == \E k \in 1..Len(job.infos) : job.infos[k].duration_sec = 0

\* C25: when the duration probe cannot read one of the job's files the
\* keeper selection does not succeed: the job is a failure for review, and
\* the unread file is not passed over like a short title.
C25_ProbeFailureFailsJob ==
    (KeeperReturned /\ ProbeFailed) => job.res.status = "review"

\* C26: when a movie job's processing has ended, every state it entered has
\* its exit timestamp next to its entry timestamp, on the success path and
\* on every failure path.
C26_EveryStateExited ==
    (pipeline = "movies" /\ pc = "SUMMARY") =>
       \A k \in 1..Len(job.state_order) : job.state_order[k] \in job.exited

\* C27: run_unified_queue runs the movies queue first and then the TV
\* queue, whatever the movies run returned: once the movies queue ran the
\* call is either about to run the TV queue or has run it and returned,
\* and it returns the movies exit code when that is not 0 and the TV exit
\* code otherwise.
C27_MoviesThenTv ==
    pipeline = "run_unified_queue" =>
       /\ job.ran \in {<<>>, <<"movies">>, <<"movies", "tv">>}
       /\ job.ran = <<"movies">> <=> pc = "RUN_TV"
       /\ job.ran = <<"movies", "tv">> <=> pc = "RETURNED"
       /\ pc = "RETURNED" =>
             /\ job.rc_movies # 0 => job.ret = job.rc_movies
             /\ job.rc_movies = 0 => job.ret = job.rc_tv

\* The movies run failed, the TV queue ran all the same and succeeded.
C27_Witness ==
    /\ pipeline = "run_unified_queue" /\ pc = "RETURNED"
    /\ job.ran = <<"movies", "tv">>
    /\ job.rc_movies = 2 /\ job.rc_tv = 0 /\ job.ret = 2

\* C28: after a movie job succeeded under the default configuration its job
\* folder is under the done root and no longer under the raw root.
C28_SucceededJobArchived ==
    (/\ pipeline = "movies" /\ pc = "SUMMARY"
     /\ Changed(cfg) = {} /\ ~cfg.dry_run
     /\ InOrder(job, DONE) /\ ~job.errored) =>
       job.dirs.done = Full /\ job.dirs.raw = Absent

\* matchCost(i, j): the deviation inside the window, no match outside it.
MatchCost(i, j) ==
    IF InWindow(job.eps_win[i], job.durs[j]) THEN Deviation(job.eps_win[i], job.durs[j])
    ELSE INF

\* Row i of the cost table from row i - 1 (prev), built left to right:
\* acc holds cost(i, 0) .. cost(i, j - 1).
RECURSIVE CostRow(_, _, _)
CostRow(prev, i, acc) ==
    IF Len(acc) > Len(job.durs) THEN acc
    ELSE CostRow(prev, i,
            Append(acc, Min(FloatAdd(acc[Len(acc)], cfg.skip_penalty),
                            FloatAdd(prev[Len(acc)], MatchCost(i, Len(acc))))))

\* Rows 0 .. m of the cost table; rows holds the rows built so far.
RECURSIVE CostRows(_)
CostRows(rows) ==
    IF Len(rows) > Len(job.eps_win) THEN rows
    ELSE CostRows(Append(rows, CostRow(rows[Len(rows)], Len(rows), <<INF>>)))

\* cost(i, j), at [i + 1][j + 1]: the least cost of covering the first i
\* units with the first j files, by the recurrence over the skip branch and
\* the match branch.
LeastCost ==
    CostRows(<<[j \in 1..(Len(job.durs) + 1) |-> (j - 1) * cfg.skip_penalty]>>)

\* With the costs C, the match branch of cell (i, j) is strictly cheaper
\* than its skip branch.
MatchStrictlyCheaper(C, i, j) ==
    /\ MatchCost(i, j) # INF
    /\ FloatAdd(C[i][j], MatchCost(i, j)) < FloatAdd(C[i + 1][j], cfg.skip_penalty)

\* The assignment read back from cell (i, j) by these per-cell choices.
RECURSIVE FollowChoices(_, _, _)
FollowChoices(C, i, j) ==
    IF i = 0 \/ j = 0 THEN <<>>
    ELSE IF MatchStrictlyCheaper(C, i, j)
      THEN Append(FollowChoices(C, i - 1, j - 1), <<i - 1, j - 1>>)
    ELSE FollowChoices(C, i, j - 1)

\* The last file was assigned to the last unit.
LastFileTaken ==
    /\ job.res.ok
    /\ job.res.pairs[Len(job.res.pairs)] = <<Len(job.eps_win) - 1, Len(job.durs) - 1>>

\* C29: the file of a cell is taken exactly when the match branch is
\* strictly cheaper than the skip branch, so that on equal costs the file is
\* skipped, and the assignment returned is the one these choices lead to.
\* Cell (i, j) of a call is the last cell of the call with the first i units
\* and the first j files, which is one of the calls, so the choice is stated
\* for the last cell of every call.
C29_TiesSkipTheFile ==
    (MatcherReturned /\ Len(job.eps_win) >= 1 /\ Len(job.durs) >= 1) =>
       LET C == LeastCost
       IN  /\ LastFileTaken <=> MatchStrictlyCheaper(C, Len(job.eps_win), Len(job.durs))
           /\ job.res.ok => job.res.pairs = FollowChoices(C, Len(job.eps_win), Len(job.durs))

\* One unit and two files of the same duration: at cell (1, 2) the two
\* branches cost the same, the second file is skipped and the first assigned.
C29_Witness ==
    /\ MatcherReturned
    /\ job.eps_win = <<[min_s |-> 1200, max_s |-> 1560]>>
    /\ job.durs = <<1440, 1440>>
    /\ FloatAdd(LeastCost[1][2], MatchCost(1, 2)) = FloatAdd(LeastCost[2][2], cfg.skip_penalty)
    /\ job.res.pairs = <<<<0, 0>>>>

\* The median was taken over the sorted input without job.trim values at
\* each end.
TrimmedBothEnds ==
    job.durs = SubSeq(Measured, job.trim + 1, Len(Measured) - job.trim)

Declared(k) == job.eps[k].min_minutes # None /\ job.eps[k].max_minutes # None

\* The declared midpoint of unit k is at least the special delta away from
\* the typical duration (both sides in seconds).
Outlier(k) ==
    /\ Declared(k)
    /\ Abs(30 * (job.eps[k].min_minutes + job.eps[k].max_minutes) - job.typical_s)
          >= 60 * cfg.special_delta_min

\* The declared range of unit k widened by the manifest buffer, in seconds,
\* the lower bound floored at 60.
DeclaredRange(k) ==
    [min_s |-> Max(60, 60 * (job.eps[k].min_minutes - cfg.manifest_buf_min)),
     max_s |-> 60 * (job.eps[k].max_minutes + cfg.manifest_buf_min)]

\* Typical duration +/- the typical buffer, the lower bound floored at 60.
TypicalWindow ==
    [min_s |-> Max(60, job.typical_s - 60 * cfg.typical_buf_min),
     max_s |-> job.typical_s + 60 * cfg.typical_buf_min]

\* C31: for a unit with declared minimum and maximum whose midpoint is at
\* least the special delta away from the typical duration, the window is the
\* declared range widened by the manifest buffer (lower bound floored at
\* 60 s), not intersected with the typical window.
C31_OutlierUsesDeclaredRange ==
    WindowsReturned =>
       \A k \in 1..Len(job.eps) : Outlier(k) => job.out[k] = DeclaredRange(k)

\* An outlier unit got a proper window that excludes the typical duration
\* and lies outside the typical window.
C31_Witness ==
    /\ WindowsReturned
    /\ cfg.special_delta_min > 0
    /\ \E k \in 1..Len(job.eps) :
         /\ Outlier(k)
         /\ job.out[k].min_s <= job.out[k].max_s
         /\ job.out[k].max_s < job.typical_s
         /\ job.out[k].min_s < TypicalWindow.min_s

\* The declared range of unit k, widened by the manifest buffer, contains the
\* typical duration.
DeclaredContainsTypical(k) ==
    DeclaredRange(k).min_s <= job.typical_s /\ job.typical_s <= DeclaredRange(k).max_s

\* The intersection of two windows: the larger lower bound and the smaller
\* upper bound.
Intersection(a, b) == [min_s |-> Max(a.min_s, b.min_s), max_s |-> Min(a.max_s, b.max_s)]

\* C32: a unit without declared minimum/maximum gets typical +/- typical
\* buffer; a unit with a declared range that is not an outlier gets the
\* intersection of the widened declared range with the typical window when
\* that range contains the typical duration, and the typical window
\* otherwise; in both non-outlier cases the window lies in the typical window.
C32_NonOutlierWindow ==
    WindowsReturned =>
       \A k \in 1..Len(job.eps) :
          /\ ~Declared(k) => job.out[k] = TypicalWindow
          /\ (Declared(k) /\ ~Outlier(k)) =>
                /\ DeclaredContainsTypical(k) =>
                      job.out[k] = Intersection(DeclaredRange(k), TypicalWindow)
                /\ ~DeclaredContainsTypical(k) => job.out[k] = TypicalWindow
                /\ job.out[k].min_s >= TypicalWindow.min_s
                /\ job.out[k].max_s <= TypicalWindow.max_s

\* One call with a unit without declared runtimes, a non-outlier unit whose
\* declared range tightens both bounds of the typical window, and one call
\* with a non-outlier unit whose declared range misses the typical duration.
C32_Witness ==
    /\ WindowsReturned
    /\ \E k \in 1..Len(job.eps) :
         /\ Declared(k) /\ ~Outlier(k)
         /\ job.eps[k].min_minutes <= job.eps[k].max_minutes
         /\ \/ /\ DeclaredContainsTypical(k)
               /\ job.out[k].min_s > TypicalWindow.min_s
               /\ job.out[k].max_s < TypicalWindow.max_s
               /\ \E u \in 1..Len(job.eps) : ~Declared(u)
            \/ /\ ~DeclaredContainsTypical(k)
               /\ job.out[k] # DeclaredRange(k)

\* pick_keeper_or_prompt has been called for the movie job.
KeeperCalled == pipeline = "movies" /\ ~cfg.dry_run /\ job.keeper_res # NoKeeper

\* The file's duration is at least the minimum main-feature floor.
ReachesFloor(f) == f.duration_sec >= min_main

\* None of the files of the job folder reaches the floor.
NoneReachesFloor == \A k \in 1..Len(job.infos) : ~ReachesFloor(job.infos[k])

\* C33: the keeper pick_keeper_or_prompt returns, and every file it offers
\* to the disambiguation prompt, has a duration of at least the floor; when
\* no file reaches the floor the result is a non-success no-candidate
\* result and the job fails in PLAN_RENAME without committing anything.
C33_KeeperFloor ==
    KeeperCalled =>
       /\ \A k \in 1..Len(job.candidates) : ReachesFloor(job.candidates[k])
       /\ job.keeper_res.status = "success" =>
             ReachesFloor(job.infos[job.keeper_res.keeper_path])
       /\ NoneReachesFloor =>
             /\ job.keeper_res.status # "success"
             /\ job.keeper_res.reason = "no_candidate_over_45m"
             /\ job.error = "review_required:no_candidate_over_45m"
             /\ ~InOrder(job, COMMIT_MOVES) /\ ~job.commit_ok
             /\ job.ready_dest # "ok" /\ job.receipt.status # "success"
             /\ pc = "SUMMARY" => (job.errored /\ FailedIn(job) = PLAN_RENAME)

\* A job with files none of which reaches the floor, at its end.
C33_Witness ==
    /\ KeeperCalled /\ pc = "SUMMARY"
    /\ Len(job.infos) > 1 /\ NoneReachesFloor
    /\ \E k \in 1..Len(job.infos) : job.infos[k].duration_sec > 0
    /\ FailedIn(job) = PLAN_RENAME

\* The candidates of the call in the order the clustering loop takes them.
SortedCandidates == keeper_candidates(job.infos, cfg.min_main_seconds)

\* Candidate a comes no later than candidate b by (duration, size) descending.
NotAfter(a, b) ==
    \/ job.infos[a].duration_sec > job.infos[b].duration_sec
    \/ /\ job.infos[a].duration_sec = job.infos[b].duration_sec
       /\ job.infos[a].size_bytes >= job.infos[b].size_bytes

\* The positions (cluster, place) at which file i stands in the clusters cl.
PlacesOf(cl, i) ==
    {p \in {<<c, m>> : c \in 1..Len(cl), m \in 1..Len(job.infos)} :
       p[2] <= Len(cl[p[1]]) /\ cl[p[1]][p[2]] = i}

\* C34: the candidates are sorted by duration descending, then size
\* descending; every candidate stands in exactly one cluster, the first
\* cluster whose first member is within tol of it; every member of a cluster
\* is within tol of the cluster's first member, which has the largest
\* duration of the cluster, and the first members of distinct clusters
\* differ by more than tol.
C34_GreedyClusters ==
    KeeperReturned =>
       LET sorted == SortedCandidates
           cl == Clusters
           first == [c \in 1..Len(cl) |-> job.infos[cl[c][1]].duration_sec]
       IN  /\ {sorted[k] : k \in 1..Len(sorted)} = LongEnough
           /\ Len(sorted) = Cardinality(LongEnough)
           /\ \A k \in 1..(Len(sorted) - 1) : NotAfter(sorted[k], sorted[k + 1])
           /\ \A i \in 1..Len(job.infos) :
                 Cardinality(PlacesOf(cl, i)) = IF i \in LongEnough THEN 1 ELSE 0
           /\ \A c \in 1..Len(cl) :
                 /\ Len(cl[c]) >= 1
                 /\ \A m \in 1..Len(cl[c]) :
                       LET d == job.infos[cl[c][m]].duration_sec
                       IN  /\ d <= first[c]
                           /\ first[c] - d <= tol
                           /\ \A b \in 1..(c - 1) : Abs(first[b] - d) > tol
                 /\ \A b \in 1..Len(cl) : b # c => Abs(first[b] - first[c]) > tol

\* Three candidates of 6064, 6062 and 6060 s: the second joins the cluster of
\* the first, the third is within tol of the second but not of the first and
\* starts a cluster of its own.
C34_Witness ==
    /\ KeeperReturned
    /\ Len(job.infos) = 3
    /\ job.infos[1].duration_sec = 6060
    /\ job.infos[2].duration_sec = 6064
    /\ job.infos[3].duration_sec = 6062
    /\ Clusters = <<<<2, 3>>, <<1>>>>

\* safe_move has returned or raised.
MoveEnded == pipeline = "safe_move" /\ pc = "RETURNED"

\* C35: safe_move ends under every pattern of filesystem failures, after at
\* most retries move attempts, one copy and at most retries delete attempts
\* of the source; the wait after the k-th failed move attempt is k times the
\* delay; the copy comes only after retries failed move attempts and the
\* delete attempts only after the copy.
C35_SafeMoveTerminates ==
    /\ <>MoveEnded
    /\ [](pipeline = "safe_move" =>
            /\ job.moves <= cfg.retries /\ job.copies <= 1 /\ job.deletes <= cfg.retries
            /\ job.waits = [k \in 1..Len(job.waits) |-> k]
            /\ Len(job.waits) = IF MoveEnded /\ job.ret = "ok" /\ job.copies = 0
                                  THEN job.moves - 1 ELSE job.moves
            /\ job.copies = 1 => job.moves = cfg.retries
            /\ job.deletes >= 1 => job.copies = 1)

\* Every move attempt and every delete attempt of a call has failed.
C35_Witness ==
    /\ MoveEnded /\ cfg.retries = Retries
    /\ job.moves = Retries /\ job.copies = 1 /\ job.deletes = Retries
    /\ job.fs.src # Absent

\* C36: every pair (unit, file) of a returned assignment has a file whose
\* duration is present and lies in the unit's closed window [min_s, max_s];
\* a file without duration or outside the window is never matched.
C36_PairsInsideWindows ==
    (MatcherReturned /\ job.res.ok) =>
       \A k \in 1..Len(job.res.pairs) :
          LET e == job.eps_win[job.res.pairs[k][1] + 1]
              d == job.durs[job.res.pairs[k][2] + 1]
          IN  d # None /\ e.min_s <= d /\ d <= e.max_s

\* A returned assignment with one file on the upper bound of its unit's
\* window and one on the lower bound, next to files without duration and
\* outside every window that were passed over.
C36_Witness ==
    /\ MatcherReturned /\ job.res.ok
    /\ \E k \in 1..Len(job.res.pairs) :
         job.durs[job.res.pairs[k][2] + 1] = job.eps_win[job.res.pairs[k][1] + 1].max_s
    /\ \E k \in 1..Len(job.res.pairs) :
         job.durs[job.res.pairs[k][2] + 1] = job.eps_win[job.res.pairs[k][1] + 1].min_s
    /\ \E j \in 1..Len(job.durs) : job.durs[j] = None
    /\ \E j \in 1..Len(job.durs) : job.durs[j] # None /\ j \notin InWindowFiles(job.eps_win, job.durs)

\* No name of the Ready area that holds a file gets other content.
NothingOverwritten ==
    \A n \in DOMAIN job.ready : job.ready[n] # 0 => job'.ready[n] = job.ready[n]

\* C37: committing a deliverable never overwrites a file that is in the
\* Ready area, in the movie pipeline (numbered suffix) and in the TV pipeline
\* ("__dup_" name), for every episode of a job and for the jobs of one run
\* one after another.
C37_NeverOverwrites == [][NothingOverwritten]_vars

\* How often the movie job has entered the state.
TimesEntered(state) ==
    Cardinality({k \in 1..Len(job.state_order) : job.state_order[k] = state})

\* The movie job's loop body has ended, by falling through to the summary or
\* by an exception that left the except handler.
MovieJobEnded == pipeline = "movies" /\ pc \in {"SUMMARY", "END"}

\* C38: the state sequence of a movie job never holds DONE and ERROR
\* together nor one of them twice, and holds one of them when the job has
\* ended; DONE is entered only after COMMIT_MOVES was entered and exited
\* with commit_ok set, and a job that entered ERROR does not enter DONE.
C38_OneTerminalState ==
    pipeline = "movies" =>
       /\ TimesEntered(DONE) + TimesEntered(ERROR) <= 1
       /\ MovieJobEnded => TimesEntered(DONE) + TimesEntered(ERROR) = 1
       /\ InOrder(job, DONE) =>
             /\ job.commit_ok /\ ~job.errored /\ job.error = ""
             /\ COMMIT_MOVES \in job.exited
             /\ \E k \in 1..Len(job.state_order) :
                   /\ job.state_order[k] = COMMIT_MOVES
                   /\ \A l \in 1..k : job.state_order[l] # DONE
       /\ job.errored => (InOrder(job, ERROR) /\ ~InOrder(job, DONE))
       /\ pc = DONE => ~InOrder(job, ERROR)

\* A job that failed after COMMIT_MOVES had exited (the eject raised), at
\* its end: ERROR once, DONE never.
C38_Witness ==
    /\ MovieJobEnded /\ pc = "SUMMARY"
    /\ COMMIT_MOVES \in job.exited /\ job.commit_ok
    /\ TimesEntered(ERROR) = 1 /\ TimesEntered(DONE) = 0

\* safe_move called the way the program calls it: src there, dst not.
NormalMove ==
    pipeline = "safe_move" /\ job.before.src = Full /\ job.before.dst = Absent

\* C39: at every step of safe_move, under any pattern of move, copy and
\* delete failures, all of the moved content is at src, at dst or at
\* dst/basename(src), and for a file at src or at dst; src is deleted, in
\* whole or in part, only when a complete copy stands at one of the other
\* two paths.
C39_ContentNeverLost ==
    NormalMove =>
       /\ job.fs.src = Full \/ job.fs.dst = Full \/ job.fs.nested = Full
       /\ ~cfg.is_dir => (job.fs.src = Full \/ job.fs.dst = Full)
       /\ job.deletes >= 1 => job.fs.dst = Full

\* A directory move whose first attempt broke off in its copy and whose
\* second attempt put the directory inside the partial dst: safe_move has
\* returned normally.
C39_Witness ==
    /\ NormalMove /\ MoveEnded /\ cfg.is_dir /\ job.ret = "ok"
    /\ job.fs = [src |-> Absent, dst |-> Partial, nested |-> Full]

\* C39 as stated: all of the moved content is at src or at dst at every step.
C39_ContentAtSrcOrDst ==
    NormalMove => (job.fs.src = Full \/ job.fs.dst = Full)

\* The movie job's final receipt reports a failure, or its folder stands in
\* a quarantine area.
MovieJobQuarantined ==
    job.receipt.status \notin {"none", "success"} \/ QuarantineArea(job) # "none"

\* C40: a job with a failure receipt or a quarantined folder has no
\* deliverable in the Ready area, and a job whose deliverable is in the Ready
\* area has a success receipt as its final receipt; a TV job has moved all of
\* its assigned episodes to Ready or none.
C40_CommitExcludesFailure ==
    /\ pipeline = "movies" =>
          /\ MovieJobQuarantined => job.ready_dest # "ok"
          /\ (MovieJobEnded /\ job.commit_ok /\ job.ready_dest = "ok") =>
                job.receipt.status = "success"
    /\ pipeline = "tv" => (job.moved = 0 \/ job.moved = Len(job.pairs))

====
